---- MODULE Spec2Model ----
(***************************************************************************)
(* The scrape pipeline of SportsChatBotAPI:                                *)
(*   scraping/ncaa_scraper.py   the two extraction strategies, the         *)
(*                              normalizer and the category orchestrator   *)
(*   scraping/data_loader.py    the load stage                             *)
(*   scraping/views.py          the job tracker: triggers, workers, status *)
(*   scraping/etl_pipeline.py   SportsETLPipeline.run_etl                  *)
(*                                                                         *)
(* These specifications share the definitions below:                      *)
(*   SpecScrape  one NCAAScraper, statement by statement                   *)
(*   Spec        the job tracker with its worker threads                   *)
(*   SpecEtl     SportsETLPipeline.run_etl                                 *)
(*   SpecLoad    the load stage called with any table                      *)
(*   FairSpec    two jobs of the job tracker, every thread scheduled       *)
(*   SpecStatus     the status endpoint over any job table                 *)
(*   SpecDemo       the create_sample_data management command              *)
(*   SpecNormalize  the normalizers over any list of raw rows              *)
(*   SpecChat       the chatbot endpoint, requests served concurrently     *)
(***************************************************************************)
EXTENDS Integers, Sequences, FiniteSets, TLC

VARIABLES
    sc,         \* SpecScrape: the frame of NCAAScraper.scrape_multiple_categories
    browsers,   \* the number of live headless browser processes
    jobs,       \* Spec: the ScrapingJob table, a job's id is its index
    threads,    \* Spec: per job, its trigger request and its worker thread
    db,         \* Spec: the stat tables the load stage writes
    env,        \* Spec: how many triggers arrive, which pages the site
                \* serves, and whether the job table can fail
    etl,        \* SpecEtl: the frame of SportsETLPipeline.run_etl, the
                \* target table and the calls made so far
    ld,         \* SpecLoad: the calls of the load stage made so far
    st,         \* SpecStatus: the status queries answered so far
    demo,       \* SpecDemo: the player stat tables of create_sample_data
    nz,         \* SpecNormalize: the calls of the normalizers made so far
    chat        \* SpecChat: the chat sessions, their messages and the
                \* requests answered so far

scrapeVars == <<sc, browsers>>

jobVars == <<jobs, threads, db, env>>

restVars == <<st, demo, nz, chat>>

vars == <<sc, browsers, jobs, threads, db, env, etl, ld, st, demo, nz, chat>>

----------------------------------------------------------------------------
(* Bounds of the environment.                                              *)

\* the most <tr> elements a page shows to the static strategy
MaxStaticRows == 5
\* the most <tr> elements a page shows to the headless browser
MaxDynRows == 3
\* the number of different cell texts a page cycles through
NumTexts == 2
\* the most trigger requests that arrive
MaxJobs == 2
\* the most calls of run_etl
MaxRuns == 2
\* the most calls of the load stage, and the most rows of a table it is given
MaxLoads == 2
MaxLoadRows == 2
\* the most requests the chatbot endpoint receives
MaxRequests == 2
\* the most raw rows a normalizer is given
MaxRawRows == 2
\* the most runs of the create_sample_data command, and the most rows the
\* player stat tables hold before the first run
MaxCommands == 2
MaxOldRows == 2

----------------------------------------------------------------------------
(* Values.  Every cell is a string; a number that pandas made of a string  *)
(* is written with a leading '#', and NaN / None are tokens of their own.  *)

NaN == "<NaN>"
None == "<None>"

\* ncaa_scraper.py:177 and :202, the escalation threshold
MinRows == 5

BasketballCategories == <<"scoring", "rebounding", "assists", "steals", "blocks">>
FootballCategories == <<"passing", "rushing", "receiving", "total-offense", "scoring">>

\* the sports a caller may name; "hockey" stands for every unsupported one
Sports == {"basketball", "football", "hockey"}

\* the f-strings of scrape_ncaa_basketball_stats / scrape_ncaa_football_stats
BaseUrl(sport, category) ==
    IF sport = "basketball"
    THEN CASE category = "scoring" -> "https://www.ncaa.com/stats/basketball-men/d1/scoring/2023"
           [] category = "rebounding" -> "https://www.ncaa.com/stats/basketball-men/d1/rebounding/2023"
           [] category = "assists" -> "https://www.ncaa.com/stats/basketball-men/d1/assists/2023"
           [] category = "steals" -> "https://www.ncaa.com/stats/basketball-men/d1/steals/2023"
           [] OTHER -> "https://www.ncaa.com/stats/basketball-men/d1/blocks/2023"
    ELSE CASE category = "passing" -> "https://www.ncaa.com/stats/football/fbs/passing/2023"
           [] category = "rushing" -> "https://www.ncaa.com/stats/football/fbs/rushing/2023"
           [] category = "receiving" -> "https://www.ncaa.com/stats/football/fbs/receiving/2023"
           [] category = "total-offense" -> "https://www.ncaa.com/stats/football/fbs/total-offense/2023"
           [] OTHER -> "https://www.ncaa.com/stats/football/fbs/scoring/2023"

\* the cell texts the pages of the environment are made of
TextSeq == <<"12", "a", "7", "b">>

TextAt(i) == TextSeq[(((i - 1) % NumTexts) % Len(TextSeq)) + 1]

\* element.get_attribute('outerHTML') of a <tr> with one cell
OuterHtml(text) ==
    CASE text = "12" -> "<tr><td>12</td></tr>"
      [] text = "a" -> "<tr><td>a</td></tr>"
      [] text = "7" -> "<tr><td>7</td></tr>"
      [] text = "b" -> "<tr><td>b</td></tr>"
      [] OTHER -> "<tr></tr>"

\* a page: its <tr> elements in document order, each the texts of its cells
Page(k) == [i \in 1..k |-> <<TextAt(i)>>]

\* what one HTTP GET of the static strategy can meet: a failed request
\* (connection failure, non-2xx status) or a page
StaticOutcomes ==
    {[ok |-> FALSE, page |-> <<>>]} \cup {[ok |-> TRUE, page |-> Page(k)] : k \in 0..MaxStaticRows}

\* what find_elements can return in the headless browser
DynPages == {Page(k) : k \in 0..MaxDynRows}

----------------------------------------------------------------------------
(* Python dicts and DataFrames.  A raw row is a dict: the sequence of its  *)
(* <<key, value>> items in insertion order.  A DataFrame is its ordered    *)
(* columns and its rows, each row the cells in column order.               *)

Keys(row) == [i \in 1..Len(row) |-> row[i][1]]

HasKey(row, k) == \E i \in 1..Len(row) : row[i][1] = k

Get(row, k) == row[CHOOSE i \in 1..Len(row) : row[i][1] = k][2]

InSeq(x, s) == \E i \in 1..Len(s) : s[i] = x

RECURSIVE Union(_, _)
\* s followed by the elements of t that are not yet in it
Union(s, t) ==
    IF t = <<>> THEN s
    ELSE Union(IF InSeq(t[1], s) THEN s ELSE Append(s, t[1]), Tail(t))

RECURSIVE ColumnsOf(_)
\* pd.DataFrame(list of dicts): the keys in order of first appearance
ColumnsOf(data) ==
    IF data = <<>> THEN <<>>
    ELSE Union(ColumnsOf(SubSeq(data, 1, Len(data) - 1)), Keys(data[Len(data)]))

EmptyDataFrame == [cols |-> <<>>, rows |-> <<>>]

\* pd.DataFrame(raw_data): an absent key is NaN
DataFrame(data) ==
    LET cols == ColumnsOf(data)
    IN [cols |-> cols,
        rows |-> [i \in 1..Len(data) |->
                    [j \in 1..Len(cols) |->
                        IF HasKey(data[i], cols[j]) THEN Get(data[i], cols[j]) ELSE NaN]]]

\* df.empty
IsEmpty(df) == Len(df.rows) = 0 \/ Len(df.cols) = 0

\* len(df)
NumRows(df) == Len(df.rows)

RECURSIVE DropDuplicateRows(_)
DropDuplicateRows(rows) ==
    IF rows = <<>> THEN <<>>
    ELSE LET init == DropDuplicateRows(SubSeq(rows, 1, Len(rows) - 1))
             last == rows[Len(rows)]
         IN IF InSeq(last, init) THEN init ELSE Append(init, last)

\* df.drop_duplicates(): the first of equal rows is kept
drop_duplicates(df) == [df EXCEPT !.rows = DropDuplicateRows(df.rows)]

\* df.fillna('')
fillna_skipped(df) == df

fillna(df) ==
    [df EXCEPT !.rows = [i \in 1..Len(df.rows) |->
        [j \in 1..Len(df.rows[i]) |->
            IF df.rows[i][j] \in {NaN, None} THEN "" ELSE df.rows[i][j]]]]

\* pd.to_numeric(x, errors='coerce') of one cell
to_numeric_coerce(x) ==
    CASE x = "12" -> "#12"
      [] x = "7" -> "#7"
      [] x = "07" -> "#7"
      [] OTHER -> NaN

\* pd.to_numeric(x, errors='ignore') of one cell
to_numeric(x) ==
    CASE x = "12" -> "#12"
      [] x = "7" -> "#7"
      [] x = "07" -> "#7"
      [] OTHER -> x

\* ncaa_scraper.py:148-151
CoerceNumeric(df) ==
    [df EXCEPT !.rows = [i \in 1..Len(df.rows) |->
        [j \in 1..Len(df.rows[i]) |->
            IF df.rows[i][j] # "" THEN to_numeric(df.rows[i][j]) ELSE df.rows[i][j]]]]

\* col.strip().lower().replace(' ', '_').replace('-', '_')
StandardizeName(col) ==
    CASE col = "Player Name" -> "player_name"
      [] col = "team-name" -> "team_name"
      [] OTHER -> col

\* ncaa_scraper.py:144
StandardizeColumns(df) ==
    [df EXCEPT !.cols = [j \in 1..Len(df.cols) |-> StandardizeName(df.cols[j])]]

----------------------------------------------------------------------------
(* NCAAScraper.  A strategy call answers [raised, rows]: raised says that  *)
(* an exception left the call, rows is what it returned otherwise.         *)

Returned(rows) == [raised |-> FALSE, rows |-> rows]

Raised == [raised |-> TRUE, rows |-> <<>>]

\* f"column_{i}", were the first cell keyed by the schema's name
ColumnKeyNamed(i) ==
    CASE i = 0 -> "player_name"
      [] i = 1 -> "column_1"
      [] OTHER -> "column_2"

ColumnKey(i) ==
    CASE i = 0 -> "column_0"
      [] i = 1 -> "column_1"
      [] OTHER -> "column_2"

HasCells(cells) == Len(cells) > 0

\* ncaa_scraper.py:49-58: one dict per <tr> that has cells
BasicRows(page) ==
    LET trs == SelectSeq(page, HasCells)
    IN [r \in 1..Len(trs) |-> [i \in 1..Len(trs[r]) |-> <<ColumnKey(i - 1), trs[r][i]>>]]

\* ncaa_scraper.py:63-65: the except clause logs and answers []
BasicExceptReraises == Raised

BasicExcept == Returned(<<>>)

\* scrape_ncaa_basic_data as one call
scrape_ncaa_basic_data(outcome) ==
    IF outcome.ok THEN Returned(BasicRows(outcome.page)) ELSE BasicExcept

\* element.text.strip() of a <tr>: the text of its one cell
ElementText(cells) == IF Len(cells) = 0 THEN "" ELSE cells[1]

\* ncaa_scraper.py:103-111: one dict per found element
DynamicRows(url, elements) ==
    [r \in 1..Len(elements) |->
        << <<"html_content", OuterHtml(ElementText(elements[r]))>>,
           <<"text_content", ElementText(elements[r])>>,
           <<"url", url>> >>]

\* the stages of scrape_ncaa_dynamic_data that can raise
DynStages == {"launch", "get", "find", "read"}

\* what one run of the headless browser can meet: the stage that raises
\* ("none": no stage), whether the wait for a <table> timed out, and the
\* elements found
DynOutcomes ==
    [failAt : DynStages \cup {"none"}, timedOut : BOOLEAN, page : DynPages]

\* ncaa_scraper.py:116-118: the except clause logs and answers []
DynamicExceptReraises == Raised

DynamicExcept == Returned(<<>>)

\* ncaa_scraper.py:119-121: whether the finally clause quits the browser
FinallyQuitsOnlyOnSuccess(driver, failed) == driver /\ ~failed

FinallyQuits(driver, failed) == driver

\* scrape_ncaa_dynamic_data as one call
scrape_ncaa_dynamic_data(url, outcome) ==
    IF outcome.failAt # "none" THEN DynamicExcept
    ELSE Returned(DynamicRows(url, outcome.page))

\* ncaa_scraper.py:177 / :202
NeedsFallbackAtMost(data) == Len(data) <= MinRows

NeedsFallbackOnlyIfSome(data) == 0 < Len(data) /\ Len(data) < MinRows

NeedsFallback(data) == Len(data) < MinRows

\* ncaa_scraper.py:179 / :204: the fallback's rows replace the static ones
FallbackDataExtends(data, dynamic) == data \o dynamic

FallbackData(data, dynamic) == dynamic

\* clean_and_structure_data; fails says that pandas raised inside the try
clean_and_structure_data_blank_row(raw, fails) ==
    IF raw = <<>> \/ fails THEN [cols |-> <<"column_0">>, rows |-> << <<"">> >>]
    ELSE CoerceNumeric(StandardizeColumns(fillna(drop_duplicates(DataFrame(raw)))))

clean_and_structure_data(raw, fails) ==
    IF raw = <<>> THEN EmptyDataFrame
    ELSE IF fails THEN EmptyDataFrame
    ELSE CoerceNumeric(StandardizeColumns(fillna(drop_duplicates(DataFrame(raw)))))

\* scrape_multiple_categories:222-234
Categories(sport) ==
    IF sport = "basketball" THEN BasketballCategories
    ELSE IF sport = "football" THEN FootballCategories
    ELSE <<>>

\* what the extraction of one category can meet
CategoryOutcomes == [static : StaticOutcomes, dynamic : DynOutcomes, cleanFails : BOOLEAN]

\* scrape_ncaa_basketball_stats / scrape_ncaa_football_stats as one call:
\* [raised, df]
scrape_ncaa_stats(sport, category, o) ==
    LET url == BaseUrl(sport, category)
        s == scrape_ncaa_basic_data(o.static)
        d == IF s.raised \/ ~NeedsFallback(s.rows) THEN s
             ELSE LET f == scrape_ncaa_dynamic_data(url, o.dynamic)
                  IN IF f.raised THEN Raised ELSE Returned(FallbackData(s.rows, f.rows))
    IN IF d.raised THEN [raised |-> TRUE, df |-> EmptyDataFrame]
       ELSE [raised |-> FALSE, df |-> clean_and_structure_data(d.rows, o.cleanFails)]


\* scrape_multiple_categories as one call, outcomes[i] what the i-th
\* category meets: [raised, results], results the dict as its items
scrape_multiple_categories(sport, outcomes) ==
    LET cats == Categories(sport)
        each == [i \in 1..Len(cats) |-> scrape_ncaa_stats(sport, cats[i], outcomes[i])]
    IN [raised |-> \E i \in 1..Len(cats) : each[i].raised,
        results |-> [i \in 1..Len(cats) |-> [category |-> cats[i], df |-> each[i].df]]]

----------------------------------------------------------------------------
(* The load stage, data_loader.py.                                         *)

\* data_loader.py:66-72
BasketballExpectedCols ==
    <<"player_name", "team_name", "games_played", "points_per_game",
      "field_goals_made", "field_goals_attempted", "free_throws_made",
      "free_throws_attempted", "three_pointers_made", "three_pointers_attempted",
      "rebounds_per_game", "assists_per_game", "steals_per_game",
      "blocks_per_game", "turnovers_per_game">>

\* data_loader.py:95-99
FootballExpectedCols ==
    <<"player_name", "team_name", "position", "games_played", "passing_yards",
      "passing_touchdowns", "interceptions_thrown", "rushing_yards", "rushing_touchdowns",
      "receiving_yards", "receiving_touchdowns", "total_tackles", "sacks", "fumbles_recovered">>

ColumnIndex(df, col) == CHOOSE j \in 1..Len(df.cols) : df.cols[j] = col

\* data_loader.py:75-77 without :80: the missing columns are added at the
\* end and nothing is dropped
SelectExpectedNoProjection(df, expected) ==
    LET missing == SelectSeq(expected, LAMBDA c : ~InSeq(c, df.cols))
    IN [cols |-> df.cols \o missing,
        rows |-> [i \in 1..Len(df.rows) |-> df.rows[i] \o [j \in 1..Len(missing) |-> None]]]

\* data_loader.py:75-80: a missing expected column is None, the others are dropped
SelectExpected(df, expected) ==
    [cols |-> expected,
     rows |-> [i \in 1..Len(df.rows) |->
                 [j \in 1..Len(expected) |->
                     IF InSeq(expected[j], df.cols)
                     THEN df.rows[i][ColumnIndex(df, expected[j])]
                     ELSE None]]]

BasketballTable == "ncaa_basketball_stats_2023"

FootballTable == "ncaa_football_stats_2023"

\* data_loader.py:203: f"ncaa_{table_type}_{season}" of any other table type
GenericTable == "ncaa_team_stats_2023"

TableNames == {BasketballTable, FootballTable, GenericTable}

EmptyDb == [t \in TableNames |-> <<>>]

\* what one call of load_processed_data_to_db can meet: the database is
\* unreachable when SportsDataLoader is built, or df.to_sql raises, or
\* the rows are written
LoadOutcomes == {"connect_error", "write_error", "ok"}

\* data_loader.py:49: to_sql(..., if_exists='replace') would drop the rows
ReplaceRows(old, new) == new

\* data_loader.py:39 / :49: to_sql(..., if_exists='append')
AppendRows(old, new) == old \o new

\* load_dataframe_to_table: df.to_sql(...), re-raising
load_dataframe_to_table(d, df, table_name, outcome) ==
    IF outcome = "ok"
    THEN [raised |-> FALSE, db |-> [d EXCEPT ![table_name] = AppendRows(@, df.rows)]]
    ELSE [raised |-> TRUE, db |-> d]

load_ncaa_basketball_stats(d, df, outcome) ==
    load_dataframe_to_table(d, SelectExpected(df, BasketballExpectedCols), BasketballTable, outcome)

load_ncaa_football_stats(d, df, outcome) ==
    load_dataframe_to_table(d, SelectExpected(df, FootballExpectedCols), FootballTable, outcome)

\* data_loader.py:208-210: the except clause logs and returns False
LoadExcept(d) == [raised |-> FALSE, ret |-> FALSE, db |-> d]

\* load_processed_data_to_db: [raised, ret, db]; the loader is built
\* outside the try, the load runs inside it
load_processed_data_to_db(d, df, table_type, outcome) ==
    IF outcome = "connect_error" THEN [raised |-> TRUE, ret |-> FALSE, db |-> d]
    ELSE LET r == IF table_type = "basketball_stats"
                  THEN load_ncaa_basketball_stats(d, df, outcome)
                  ELSE IF table_type = "football_stats"
                  THEN load_ncaa_football_stats(d, df, outcome)
                  ELSE load_dataframe_to_table(d, df, GenericTable, outcome)
         IN IF r.raised THEN LoadExcept(d)
            ELSE [raised |-> FALSE, ret |-> TRUE, db |-> r.db]

\* no call of run_etl is in progress
EtlIdle ==
    [pc |-> "idle", extractor_type |-> "", driver |-> FALSE, elements |-> <<>>,
     raw_data |-> <<>>, df |-> EmptyDataFrame, ret |-> FALSE, table |-> <<>>,
     written |-> FALSE, runs |-> 0]

\* the load stage has not been called
LdIdle ==
    [calls |-> 0, call |-> "", table_type |-> "", df |-> EmptyDataFrame,
     outcome |-> "", wrote |-> EmptyDataFrame, before |-> EmptyDb,
     raised |-> FALSE, ret |-> FALSE]

JobsIdle == jobs = <<>> /\ threads = <<>> /\ db = EmptyDb /\ env = [jobs |-> 0, uniform |-> TRUE, faults |-> FALSE]

\* no status query answered yet
StIdle == [calls |-> 0, job_id |-> 0, code |-> 0, body |-> <<>>, before |-> <<>>, after |-> <<>>]

\* no management command run yet, the player stat tables empty
DemoIdle ==
    [basketball |-> <<>>, football |-> <<>>,
     next_id |-> [basketball |-> 1, football |-> 1],
     runs |-> 0, pc |-> "idle", sport |-> "",
     options |-> [basketball |-> FALSE, football |-> FALSE, all |-> FALSE],
     create_all |-> FALSE, seed |-> 0, i |-> 0, used_names |-> {},
     retries |-> 0, created |-> 0, returned |-> {},
     before |-> [basketball |-> <<>>, football |-> <<>>]]

\* no normalizer called yet
NzIdle ==
    [calls |-> 0, fn |-> "", raw |-> <<>>, failed |-> FALSE, raised |-> FALSE,
     df |-> EmptyDataFrame]

\* no chat session, no message, no request yet
ChatIdle ==
    [sessions |-> <<>>, messages |-> <<>>, reqs |-> <<>>, uuids |-> 0,
     overlapped |-> FALSE]

RestIdle == st = StIdle /\ demo = DemoIdle /\ nz = NzIdle /\ chat = ChatIdle


----------------------------------------------------------------------------
(* SpecScrape: one NCAAScraper running scrape_multiple_categories, one     *)
(* statement group per step.                                               *)
(*   sc.pc        where the call stands                                    *)
(*   sc.sport, sc.idx, sc.results   scrape_multiple_categories' locals;    *)
(*                results is the dict as its items in insertion order      *)
(*   sc.data, sc.df                 scrape_ncaa_*_stats' locals            *)
(*   sc.driver, sc.elements, sc.ret scrape_ncaa_dynamic_data's locals      *)
(*   sc.log       the strategy calls made for the current category         *)
(*   sc.first, sc.staticFailed, sc.failAt, sc.timedOut, sc.cleanFailed     *)
(*                what happened to the current category (history)          *)
(*   sc.sawFailure  a category of this run met a failure (history)         *)

ScIdle ==
    [pc |-> "idle", sport |-> "", idx |-> 0, results |-> <<>>,
     data |-> <<>>, df |-> EmptyDataFrame,
     driver |-> FALSE, elements |-> <<>>, ret |-> <<>>,
     log |-> <<>>, first |-> <<>>, staticFailed |-> FALSE, failAt |-> "none",
     timedOut |-> FALSE, cleanFailed |-> FALSE, sawFailure |-> FALSE]

InitScrape == sc = ScIdle /\ browsers = 0 /\ JobsIdle /\ etl = EtlIdle /\ ld = LdIdle /\ RestIdle

ScCategory == Categories(sc.sport)[sc.idx]

ScUrl == BaseUrl(sc.sport, ScCategory)

\* scrape_multiple_categories is called: results = {}, and the first
\* category starts, or an unsupported sport returns {}
ScCall(sport) ==
    /\ sc.pc \in {"idle", "returned"}
    /\ sc' = [ScIdle EXCEPT !.sport = sport,
                            !.idx = IF Categories(sport) = <<>> THEN 0 ELSE 1,
                            !.pc = IF Categories(sport) = <<>> THEN "returned" ELSE "static"]
    /\ UNCHANGED <<browsers, jobVars, etl, ld, restVars>>

\* data = self.scrape_ncaa_basic_data(base_url); if len(data) < 5
ScStatic(o) ==
    /\ sc.pc = "static"
    /\ LET r == scrape_ncaa_basic_data(o)
       IN sc' = [sc EXCEPT !.log = <<[strategy |-> "static", url |-> ScUrl]>>,
                           !.data = r.rows,
                           !.first = r.rows,
                           !.staticFailed = ~o.ok,
                           !.sawFailure = @ \/ ~o.ok,
                           !.pc = IF r.raised THEN "raised"
                                  ELSE IF NeedsFallback(r.rows) THEN "launch"
                                  ELSE "clean"]
    /\ UNCHANGED <<browsers, jobVars, etl, ld, restVars>>

\* scrape_ncaa_dynamic_data is called; driver = webdriver.Chrome(...)
DynLaunch(ok) ==
    /\ sc.pc = "launch"
    /\ sc' = [sc EXCEPT !.log = Append(@, [strategy |-> "dynamic", url |-> ScUrl]),
                        !.driver = ok,
                        !.failAt = IF ok THEN "none" ELSE "launch",
                        !.pc = IF ok THEN "get" ELSE "except"]
    /\ browsers' = IF ok THEN browsers + 1 ELSE browsers
    /\ UNCHANGED <<jobVars, etl, ld, restVars>>

\* driver.get(url)
DynGet(ok) ==
    /\ sc.pc = "get"
    /\ sc' = [sc EXCEPT !.failAt = IF ok THEN "none" ELSE "get",
                        !.pc = IF ok THEN "wait" ELSE "except"]
    /\ UNCHANGED <<browsers, jobVars, etl, ld, restVars>>

\* WebDriverWait(driver, 10).until(...); a timeout is answered by sleep(5)
DynWait(timedOut) ==
    /\ sc.pc = "wait"
    /\ sc' = [sc EXCEPT !.timedOut = timedOut, !.pc = "find"]
    /\ UNCHANGED <<browsers, jobVars, etl, ld, restVars>>

\* elements = driver.find_elements(By.TAG_NAME, "tr")
DynFind(ok, page) ==
    /\ sc.pc = "find"
    /\ sc' = [sc EXCEPT !.elements = IF ok THEN page ELSE <<>>,
                        !.failAt = IF ok THEN "none" ELSE "find",
                        !.pc = IF ok THEN "read" ELSE "except"]
    /\ UNCHANGED <<browsers, jobVars, etl, ld, restVars>>

\* the loop over elements (attribute reads) and return scraped_data
DynRead(ok) ==
    /\ sc.pc = "read"
    /\ sc' = [sc EXCEPT !.ret = IF ok THEN DynamicRows(ScUrl, sc.elements) ELSE <<>>,
                        !.failAt = IF ok THEN "none" ELSE "read",
                        !.pc = IF ok THEN "finally" ELSE "except"]
    /\ UNCHANGED <<browsers, jobVars, etl, ld, restVars>>

\* except Exception: log, return []
DynExcept ==
    /\ sc.pc = "except"
    /\ sc' = [sc EXCEPT !.ret = DynamicExcept.rows,
                        !.sawFailure = TRUE,
                        !.pc = IF DynamicExcept.raised THEN "raised" ELSE "finally"]
    /\ UNCHANGED <<browsers, jobVars, etl, ld, restVars>>

\* finally: if driver: driver.quit(); the call returns and data = its result
DynFinally ==
    /\ sc.pc = "finally"
    /\ LET quits == FinallyQuits(sc.driver, sc.failAt # "none")
       IN /\ browsers' = IF quits THEN browsers - 1 ELSE browsers
          /\ sc' = [sc EXCEPT !.driver = FALSE,
                              !.data = FallbackData(sc.data, sc.ret),
                              !.pc = "clean"]
    /\ UNCHANGED <<jobVars, etl, ld, restVars>>

\* df = self.clean_and_structure_data(data); return df
ScClean(fails) ==
    /\ sc.pc = "clean"
    /\ sc' = [sc EXCEPT !.df = clean_and_structure_data(sc.data, fails),
                        !.cleanFailed = fails /\ sc.data # <<>>,
                        !.sawFailure = @ \/ (fails /\ sc.data # <<>>),
                        !.pc = "record"]
    /\ UNCHANGED <<browsers, jobVars, etl, ld, restVars>>

\* results[category] = df, and the loop goes on or the dict is returned
ScRecord ==
    /\ sc.pc = "record"
    /\ sc' = [ScIdle EXCEPT !.sport = sc.sport,
                            !.sawFailure = sc.sawFailure,
                            !.results = Append(sc.results, [category |-> ScCategory, df |-> sc.df]),
                            !.idx = IF sc.idx < Len(Categories(sc.sport)) THEN sc.idx + 1 ELSE sc.idx,
                            !.pc = IF sc.idx < Len(Categories(sc.sport)) THEN "static" ELSE "returned"]
    /\ UNCHANGED <<browsers, jobVars, etl, ld, restVars>>

NextScrape ==
    \/ \E sport \in Sports : ScCall(sport)
    \/ \E o \in StaticOutcomes : ScStatic(o)
    \/ \E ok \in BOOLEAN : DynLaunch(ok)
    \/ \E ok \in BOOLEAN : DynGet(ok)
    \/ \E t \in BOOLEAN : DynWait(t)
    \/ \E ok \in BOOLEAN, page \in DynPages : DynFind(ok, page)
    \/ \E ok \in BOOLEAN : DynRead(ok)
    \/ DynExcept
    \/ DynFinally
    \/ \E fails \in BOOLEAN : ScClean(fails)
    \/ ScRecord

SpecScrape == InitScrape /\ [][NextScrape]_vars

----------------------------------------------------------------------------
(* Claims about the orchestrator and the strategies (SpecScrape).          *)

StaticCall == [strategy |-> "static", url |-> ScUrl]

DynamicCall == [strategy |-> "dynamic", url |-> ScUrl]

InDynamicCall == sc.pc \in {"get", "wait", "find", "read", "except", "finally"}

InCategory == sc.pc \in {"launch", "clean", "record"} \/ InDynamicCall

\* the static strategy returned fewer than the threshold of 5 rows
StaticFellShort == Len(sc.first) < MinRows

\* the dynamic strategy ended in its except clause: it failed
DynamicFailed == Len(sc.log) = 2 /\ sc.failAt # "none"

\* C4: for every category the static strategy is called first; the dynamic
\* strategy is called, at most once and on the same URL, exactly when the
\* static one returned fewer than 5 rows, and before the category's table
\* is recorded in results.
C4_EscalationIffFewerThanFive ==
    /\ sc.pc = "static" => sc.log = <<>>
    /\ sc.pc = "launch" => sc.log = <<StaticCall>> /\ StaticFellShort
    /\ InDynamicCall => sc.log = <<StaticCall, DynamicCall>> /\ StaticFellShort
    /\ sc.pc \in {"clean", "record"} =>
          sc.log = IF StaticFellShort THEN <<StaticCall, DynamicCall>> ELSE <<StaticCall>>
    /\ InCategory => Len(sc.results) = sc.idx - 1

C4_Witness ==
    /\ sc.pc = "record"
    /\ Len(sc.first) = MinRows - 1
    /\ sc.log = <<StaticCall, DynamicCall>>
    /\ sc.idx = 2

StaticKeys == {"column_0", "column_1", "column_2"}

DynamicKeys == {"html_content", "text_content", "url"}

\* C5: when a category escalates, the static rows are discarded: the table
\* has only the dynamic strategy's columns and at most as many rows as the
\* dynamic strategy returned, so none when it returned none or failed.
C5_EscalationDiscardsStaticRows ==
    (sc.pc = "record" /\ Len(sc.log) = 2) =>
        /\ NumRows(sc.df) <= Len(sc.ret)
        /\ \A j \in 1..Len(sc.df.cols) :
              sc.df.cols[j] \in DynamicKeys /\ sc.df.cols[j] \notin StaticKeys
        /\ sc.data = sc.ret
        /\ (sc.failAt # "none" => sc.ret = <<>> /\ IsEmpty(sc.df))

C5_Witness ==
    /\ sc.pc = "record"
    /\ Len(sc.log) = 2
    /\ Len(sc.first) = 3
    /\ Len(sc.ret) = 3
    /\ NumRows(sc.df) = 2

C5_WitnessDynamicFailed ==
    /\ sc.pc = "record"
    /\ Len(sc.first) = 4
    /\ DynamicFailed
    /\ IsEmpty(sc.df)

CategoryFailed == DynamicFailed \/ sc.cleanFailed

C9_DynamicQuitsBrowser ==
    /\ ~InDynamicCall => browsers = 0 /\ ~sc.driver
    /\ InDynamicCall => browsers = (IF sc.driver THEN 1 ELSE 0)

C9_Witness ==
    /\ sc.pc = "clean"
    /\ Len(sc.log) = 2
    /\ sc.failAt = "read"
    /\ sc.timedOut
    /\ browsers = 0

----------------------------------------------------------------------------
(* Spec: the job tracker of views.py.  A trigger request creates a job,    *)
(* saves it as running, starts the worker thread and responds; the worker  *)
(* scrapes, loads and finalizes the job.  Every call into the job table    *)
(* (create, get, save) and every thread start can raise.                   *)
(*   jobs[j]      the persisted ScrapingJob row                            *)
(*   threads[j].req, .reply    the trigger request: its next statement     *)
(*                and its response                                         *)
(*   threads[j].pc             the worker thread's next statement          *)
(*   threads[j].job, .phase, .results, .pos, .total_records                *)
(*                the worker's locals; phase counts the sports of the job  *)
(*   threads[j].reply, .reply_job_id     the response of the trigger       *)
(*   threads[j].started                  history: the calls of             *)
(*                                       Thread.start() for the job        *)
(*   threads[j].extracted, .attempted, .skipped                            *)
(*                history: the categories the worker has extracted, the    *)
(*                loads it has called and the empty tables it has passed   *)
(*   threads[j].written, .written_basketball, .writeFailed, .cause         *)
(*                history: the rows the job's loads appended, those of     *)
(*                them appended to the basketball table, whether a write   *)
(*                of the job failed, and str(e) of the exception that      *)
(*                reached the worker                                       *)

JobKinds == {"etl", "basketball", "football"}

\* the sports a worker scrapes: execute_etl_process both, the others one
SportsOf(kind) ==
    IF kind = "etl" THEN <<"basketball", "football">>
    ELSE IF kind = "basketball" THEN <<"basketball">>
    ELSE <<"football">>

JobName(kind) ==
    IF kind = "etl" THEN "NCAA ETL Pipeline"
    ELSE IF kind = "basketball" THEN "NCAA Basketball Scraper"
    ELSE "NCAA Football Scraper"

\* models.py:15-21: the defaults of a new ScrapingJob
NewJob(kind) ==
    [name |-> JobName(kind), status |-> "pending",
     created_at |-> "<created>", completed_at |-> None,
     records_processed |-> 0, error_message |-> ""]

NewThread(kind) ==
    [kind |-> kind, req |-> "save", reply |-> "none", pc |-> "unstarted",
     job |-> NewJob(kind), phase |-> 1, results |-> <<>>, pos |-> 1,
     total_records |-> 0, written |-> 0, written_basketball |-> 0,
     writeFailed |-> FALSE, cause |-> "",
     extracted |-> 0, attempted |-> 0, skipped |-> 0,
     reply_job_id |-> 0, started |-> 0]

\* what the pages of one category can be for a worker: the site is down,
\* the page needs the browser, or the static page has all its rows
CaseDown ==
    [static |-> [ok |-> FALSE, page |-> <<>>],
     dynamic |-> [failAt |-> "get", timedOut |-> FALSE, page |-> Page(0)],
     cleanFails |-> FALSE]

CaseDynamic ==
    [static |-> [ok |-> TRUE, page |-> Page(MinRows - 1)],
     dynamic |-> [failAt |-> "none", timedOut |-> FALSE, page |-> Page(MaxDynRows)],
     cleanFails |-> FALSE]

CaseStatic ==
    [static |-> [ok |-> TRUE, page |-> Page(MaxStaticRows)],
     dynamic |-> [failAt |-> "none", timedOut |-> FALSE, page |-> Page(0)],
     cleanFails |-> FALSE]

WorkerCases == {CaseDown, CaseDynamic, CaseStatic}

\* the outcomes of the five categories of one scrape run: any, or, where
\* several jobs run, a site that is down but for its first page
RunOutcomes ==
    IF env.uniform THEN {[i \in 1..5 |-> IF i = 1 THEN c ELSE CaseDown] : c \in {CaseDown, CaseStatic}}
    ELSE [1..5 -> WorkerCases]

\* the runs explored: MaxJobs jobs over a healthy job table, two jobs whose
\* job-table operations can fail, and one job scraping any site
Scenarios ==
    {[jobs |-> MaxJobs, uniform |-> TRUE, faults |-> FALSE],
     [jobs |-> 2, uniform |-> TRUE, faults |-> TRUE],
     [jobs |-> 1, uniform |-> FALSE, faults |-> TRUE]}

\* whether an operation on the job table, or the start of a thread, succeeds
Oks == IF env.faults THEN BOOLEAN ELSE {TRUE}

Init ==
    /\ jobs = <<>>
    /\ threads = <<>>
    /\ db = EmptyDb
    /\ env \in Scenarios
    /\ sc = ScIdle
    /\ browsers = 0
    /\ etl = EtlIdle
    /\ ld = LdIdle
    /\ RestIdle

JobIds == 1..Len(jobs)

\* views.py:43-54 with the thread started before job.save()
TriggerCreateStartsWorker(kind) ==
    /\ Len(jobs) < env.jobs
    /\ jobs' = Append(jobs, NewJob(kind))
    /\ threads' = Append(threads, [NewThread(kind) EXCEPT !.pc = "get"])
    /\ UNCHANGED <<db, env, scrapeVars, etl, ld, restVars>>

\* views.py:43-46 / 140-143 / 204-207: ScrapingJob.objects.create(...)
TriggerCreate(kind) ==
    /\ Len(jobs) < env.jobs
    /\ jobs' = Append(jobs, NewJob(kind))
    /\ threads' = Append(threads, NewThread(kind))
    /\ UNCHANGED <<db, env, scrapeVars, etl, ld, restVars>>

\* views.py:49 / 146 / 210: job.status = 'running'
MarkRunningForgotten(job) == job

MarkRunning(job) == [job EXCEPT !.status = "running"]

\* views.py:49-50: job.status = 'running'; job.save()
TriggerSave(j, ok) ==
    /\ threads[j].req = "save"
    /\ IF ok
       THEN /\ jobs' = [jobs EXCEPT ![j] = MarkRunning(NewJob(threads[j].kind))]
            /\ threads' = [threads EXCEPT ![j].req = "start"]
       ELSE /\ threads' = [threads EXCEPT ![j].req = "done", ![j].reply = "error"]
            /\ UNCHANGED jobs
    /\ UNCHANGED <<db, env, scrapeVars, etl, ld, restVars>>

\* views.py:53-64 with the success response returned also when
\* thread.start() raised
TriggerStartRepliesAnyway(j, ok) ==
    /\ threads[j].req = "start"
    /\ threads' = IF ok
                  THEN [threads EXCEPT ![j].req = "done", ![j].reply = "running",
                                       ![j].reply_job_id = j, ![j].pc = "get",
                                       ![j].started = @ + 1]
                  ELSE [threads EXCEPT ![j].req = "done", ![j].reply = "running",
                                       ![j].reply_job_id = j]
    /\ UNCHANGED <<jobs, db, env, scrapeVars, etl, ld, restVars>>

\* views.py:53-60: threading.Thread(target=..., args=(job.id,)).start() and
\* return Response({..., "job_id": job.id, "status": "running"}); the
\* response is built from the request's own job object
TriggerStart(j, ok) ==
    /\ threads[j].req = "start"
    /\ threads' = IF ok
                  THEN [threads EXCEPT ![j].req = "done", ![j].reply = "running",
                                       ![j].reply_job_id = j, ![j].pc = "get",
                                       ![j].started = @ + 1]
                  ELSE [threads EXCEPT ![j].req = "done", ![j].reply = "error"]
    /\ UNCHANGED <<jobs, db, env, scrapeVars, etl, ld, restVars>>

\* an exception reaches the worker's except clause
Throw(t, message) == [t EXCEPT !.pc = "except", !.cause = message]

\* ScrapingJob.objects.latest('created_at') in place of get(id=job_id)
LatestJobId(j) == Len(jobs)

\* views.py:53 / 71: args=(job.id,); the worker of job j is given job_id = j
JobId(j) == j

\* views.py:71 / 168 / 232: job = ScrapingJob.objects.get(id=job_id)
WorkerGet(j, ok) ==
    /\ threads[j].pc = "get"
    /\ threads' = [threads EXCEPT ![j] =
                      IF ok THEN [@ EXCEPT !.job = jobs[JobId(j)], !.pc = "scrape"]
                      ELSE Throw(@, "job lookup error")]
    /\ UNCHANGED <<jobs, db, env, scrapeVars, etl, ld, restVars>>

WorkerSport(t) == SportsOf(t.kind)[t.phase]

\* views.py:86-87 with the loop left at the first empty table
SkipEmptyStops(t) ==
    IF t.pos <= Len(t.results) /\ ~IsEmpty(t.results[t.pos].df)
    THEN [t EXCEPT !.pc = "load"]
    ELSE [t EXCEPT !.results = <<>>, !.pos = 1, !.pc = "complete"]

RECURSIVE SkipEmpty(_)
\* views.py:86-87 / 94-95 / 177-178 / 241-242: the loop passes the items
\* whose table is empty, up to the next one to load; after the last item
\* comes the next sport, or the finalization
SkipEmpty(t) ==
    IF t.pos <= Len(t.results)
    THEN IF IsEmpty(t.results[t.pos].df)
         THEN SkipEmpty([t EXCEPT !.pos = @ + 1, !.skipped = @ + 1])
         ELSE [t EXCEPT !.pc = "load"]
    ELSE IF t.phase < Len(SportsOf(t.kind))
    THEN [t EXCEPT !.phase = @ + 1, !.results = <<>>, !.pos = 1, !.pc = "scrape"]
    ELSE [t EXCEPT !.results = <<>>, !.pos = 1, !.pc = "complete"]

\* views.py:85 / 93 / 174 / 238: scraper.scrape_multiple_categories(...)
WorkerScrape(j, outcomes) ==
    /\ threads[j].pc = "scrape"
    /\ LET r == scrape_multiple_categories(WorkerSport(threads[j]), outcomes)
       IN threads' = [threads EXCEPT ![j] =
                         IF r.raised THEN Throw(@, "extraction error")
                         ELSE SkipEmpty([@ EXCEPT !.results = r.results, !.pos = 1,
                                                  !.extracted = @ + Len(r.results)])]
    /\ UNCHANGED <<jobs, db, env, scrapeVars, etl, ld, restVars>>

TableType(sport) == IF sport = "basketball" THEN "basketball_stats" ELSE "football_stats"

\* views.py:90 / 98 / 183 / 247: total_records += len(df)
Counted(n, loaded) == n

\* views.py:88-90 / 96-98 / 179-183 / 243-247: the loop body for a table
\* that is not empty; the value load_processed_data_to_db returns is dropped
WorkerLoad(j, outcome) ==
    /\ threads[j].pc = "load"
    /\ LET t == threads[j]
           df == t.results[t.pos].df
           r == load_processed_data_to_db(db, df, TableType(WorkerSport(t)), outcome)
       IN IF r.raised
          THEN /\ threads' = [threads EXCEPT ![j] =
                      Throw([t EXCEPT !.attempted = @ + 1], "database connection error")]
               /\ UNCHANGED db
          ELSE /\ db' = r.db
               /\ threads' = [threads EXCEPT ![j] =
                      SkipEmpty([t EXCEPT
                          !.pos = @ + 1,
                          !.attempted = @ + 1,
                          !.total_records = @ + Counted(NumRows(df), r.ret),
                          !.written = @ + (IF r.ret THEN NumRows(df) ELSE 0),
                          !.written_basketball =
                              @ + (IF r.ret /\ WorkerSport(t) = "basketball"
                                   THEN NumRows(df) ELSE 0),
                          !.writeFailed = @ \/ ~r.ret])]
    /\ UNCHANGED <<jobs, env, scrapeVars, etl, ld, restVars>>

\* views.py:101-103 / 186-188 / 250-252: the job is saved as completed
WorkerComplete(j, ok) ==
    /\ threads[j].pc = "complete"
    /\ IF ok
       THEN /\ jobs' = [jobs EXCEPT ![JobId(j)] =
                          [threads[j].job EXCEPT !.status = "completed",
                                                 !.records_processed = threads[j].total_records]]
            /\ threads' = [threads EXCEPT ![j].pc = "done"]
       ELSE /\ threads' = [threads EXCEPT ![j] = Throw(@, "job save error")]
            /\ UNCHANGED jobs
    /\ UNCHANGED <<db, env, scrapeVars, etl, ld, restVars>>

\* views.py:108 without :109: the message is not recorded
FailedJobNoMessage(job, message) == [job EXCEPT !.status = "failed"]

\* views.py:108-109 / 193-194 / 257-258
FailedJob(job, message) == [job EXCEPT !.status = "failed", !.error_message = message]

\* views.py:105-110 / 190-195 / 254-259: the except clause fetches the job
\* again and saves it as failed; if that raises too the thread dies
WorkerExcept(j, ok) ==
    /\ threads[j].pc = "except"
    /\ IF ok
       THEN /\ jobs' = [jobs EXCEPT ![JobId(j)] = FailedJob(@, threads[j].cause)]
            /\ threads' = [threads EXCEPT ![j].pc = "done"]
       ELSE /\ threads' = [threads EXCEPT ![j].pc = "died"]
            /\ UNCHANGED jobs
    /\ UNCHANGED <<db, env, scrapeVars, etl, ld, restVars>>

\* views.py:112-131: get_job_status reads one job, or answers 404
get_job_status(job_id) ==
    /\ job_id \in 1..(MaxJobs + 1)
    /\ UNCHANGED vars

Next ==
    \/ \E kind \in JobKinds : TriggerCreate(kind)
    \/ \E j \in JobIds, ok \in Oks : TriggerSave(j, ok)
    \/ \E j \in JobIds, ok \in Oks : TriggerStart(j, ok)
    \/ \E j \in JobIds, ok \in Oks : WorkerGet(j, ok)
    \/ \E j \in JobIds, outcomes \in RunOutcomes : WorkerScrape(j, outcomes)
    \/ \E j \in JobIds, outcome \in LoadOutcomes : WorkerLoad(j, outcome)
    \/ \E j \in JobIds, ok \in Oks : WorkerComplete(j, ok)
    \/ \E j \in JobIds, ok \in Oks : WorkerExcept(j, ok)
    \/ \E job_id \in 1..(MaxJobs + 1) : get_job_status(job_id)

Spec == Init /\ [][Next]_vars

----------------------------------------------------------------------------
(* The job tracker: claims under Spec.                                     *)

StatusMoves ==
    {<<"pending", "running">>, <<"running", "completed">>, <<"running", "failed">>}

\* C1: under any interleaving of the three triggers, their workers and the
\* status queries, a job is created pending and its persisted status only
\* moves pending -> running -> completed or pending -> running -> failed:
\* to running once, and never again out of completed or failed.
C1_StatusOnlyMovesForward ==
    [][/\ Len(jobs') >= Len(jobs)
       /\ \A j \in 1..Len(jobs) :
              \/ jobs'[j].status = jobs[j].status
              \/ <<jobs[j].status, jobs'[j].status>> \in StatusMoves
       /\ \A j \in (Len(jobs) + 1)..Len(jobs') : jobs'[j].status = "pending"]_vars

\* two jobs side by side, one that went running -> completed and one that
\* went running -> failed
C1_Witness ==
    \E j, k \in JobIds :
        /\ jobs[j].status = "completed" /\ threads[j].pc = "done"
        /\ jobs[k].status = "failed" /\ threads[k].pc = "done"

\* a worker that is past a failed write without being in its except clause
WriteFailureIgnored(j) ==
    threads[j].writeFailed /\ threads[j].pc \in {"load", "scrape", "complete"}

\* C2: when a write of the load stage fails for a job, the error reaches
\* the job's worker, no further load of the job is performed and the job
\* ends failed, not completed.
C2_WriteFailureFailsJob ==
    \A j \in JobIds :
        threads[j].writeFailed =>
            /\ ~WriteFailureIgnored(j)
            /\ jobs[j].status # "completed"

\* a job saved as completed although one of its writes had failed
C2_Witness ==
    \E j \in JobIds :
        threads[j].writeFailed /\ threads[j].pc = "done" /\ jobs[j].status = "completed"

\* C3: a completed job's records_processed is the number of rows the job
\* appended to the stat tables; the rows of a category whose load did not
\* succeed are not counted.
C3_RecordsProcessedIsRowsAppended ==
    \A j \in JobIds :
        jobs[j].status = "completed" => jobs[j].records_processed = threads[j].written

\* a completed job that reports more rows than it appended
C3_Witness ==
    \E j \in JobIds :
        /\ jobs[j].status = "completed"
        /\ jobs[j].records_processed > threads[j].written
        /\ Len(db[BasketballTable]) + Len(db[FootballTable]) < jobs[j].records_processed

\* the worker has been through every category of every sport of its job
ProcessedAll(t) ==
    \/ t.pc = "complete"
    \/ t.pc = "done" /\ t.cause = ""
    \/ t.cause = "job save error"

----------------------------------------------------------------------------
(* SpecEtl: SportsETLPipeline.run_etl, etl_pipeline.py:157-225, statement  *)
(* by statement on the selenium path.                                      *)
(*   etl.pc       where the call stands ("idle": no call in progress)      *)
(*   etl.driver   whether run_etl holds a driver                           *)
(*   etl.ret      what the last call returned                              *)
(*   etl.table    the rows of the target table                             *)
(*   etl.written  history: whether the last call wrote its rows            *)
(*   etl.runs     the calls made so far                                    *)

ExtractorTypes == {"beautifulsoup", "selenium", "other"}

\* etl_pipeline.py:180-187 / 195-201: one dict per element
EtlRows(elements) ==
    [r \in 1..Len(elements) |->
        << <<"html_content", OuterHtml(ElementText(elements[r]))>>,
           <<"text_content", ElementText(elements[r])>>,
           <<"tag", "tr">> >>]

\* str.strip() of one cell
str_strip(x) ==
    CASE x = " a" -> "a"
      [] x = "b " -> "b"
      [] OTHER -> x

\* etl_pipeline.py:118-140
_clean_dataframe(df) ==
    LET d == fillna(drop_duplicates(df))
    IN [d EXCEPT !.rows = [i \in 1..Len(d.rows) |->
           [j \in 1..Len(d.rows[i]) |-> str_strip(d.rows[i][j])]]]

\* etl_pipeline.py:90-116; fails says that pandas raised inside the try
transform_ncaa_data(raw_data, fails) ==
    IF fails THEN EmptyDataFrame ELSE _clean_dataframe(DataFrame(raw_data))

InitEtl == etl = EtlIdle /\ browsers = 0 /\ sc = ScIdle /\ JobsIdle /\ ld = LdIdle /\ RestIdle

\* run_etl returns value; its locals are gone
EtlReturn(e, value) ==
    [e EXCEPT !.pc = "idle", !.ret = value, !.driver = FALSE, !.elements = <<>>,
              !.raw_data = <<>>, !.df = EmptyDataFrame]

\* etl_pipeline.py:169-173 / 189 / 204-205: the call and its dispatch; any
\* other extractor type raises ValueError
EtlCall(extractor_type) ==
    /\ etl.pc = "idle"
    /\ etl.runs < MaxRuns
    /\ etl' = [EtlIdle EXCEPT
                  !.table = etl.table, !.runs = etl.runs + 1,
                  !.extractor_type = extractor_type,
                  !.pc = CASE extractor_type = "beautifulsoup" -> "soup"
                           [] extractor_type = "selenium" -> "launch"
                           [] OTHER -> "except"]
    /\ UNCHANGED <<sc, browsers, jobVars, ld, restVars>>

\* etl_pipeline.py:174-188: extract_with_beautifulsoup answers the parsed
\* page or, after any exception, None, which :207 takes as no data
EtlSoup(ok, page) ==
    /\ etl.pc = "soup"
    /\ etl' = [etl EXCEPT !.raw_data = IF ok THEN EtlRows(page) ELSE <<>>,
                          !.pc = "check"]
    /\ UNCHANGED <<sc, browsers, jobVars, ld, restVars>>

\* etl_pipeline.py:78: webdriver.Chrome(...); when it raises,
\* extract_with_selenium answers None, :191 is passed over and raw_data is
\* unbound at :207
EtlLaunch(ok) ==
    /\ etl.pc = "launch"
    /\ IF ok
       THEN /\ browsers' = browsers + 1
            /\ etl' = [etl EXCEPT !.pc = "get"]
       ELSE /\ etl' = [etl EXCEPT !.pc = "except"]
            /\ UNCHANGED browsers
    /\ UNCHANGED <<sc, jobVars, ld, restVars>>

\* etl_pipeline.py:79-88: driver.get(url); the except clause answers None
\* and does nothing about the browser
EtlGet(ok) ==
    /\ etl.pc = "get"
    /\ etl' = IF ok THEN [etl EXCEPT !.driver = TRUE, !.pc = "find"]
              ELSE [etl EXCEPT !.pc = "except"]
    /\ UNCHANGED <<sc, browsers, jobVars, ld, restVars>>

\* etl_pipeline.py:193: driver.find_elements(By.TAG_NAME, 'tr')
EtlFind(ok, page) ==
    /\ etl.pc = "find"
    /\ etl' = IF ok THEN [etl EXCEPT !.elements = page, !.pc = "read"]
              ELSE [etl EXCEPT !.pc = "except"]
    /\ UNCHANGED <<sc, browsers, jobVars, ld, restVars>>

\* etl_pipeline.py:194-202: the elements are read
EtlRead(ok) ==
    /\ etl.pc = "read"
    /\ etl' = IF ok THEN [etl EXCEPT !.raw_data = EtlRows(etl.elements), !.pc = "quit"]
              ELSE [etl EXCEPT !.pc = "except"]
    /\ UNCHANGED <<sc, browsers, jobVars, ld, restVars>>

\* etl_pipeline.py:203: driver.quit()
EtlQuit ==
    /\ etl.pc = "quit"
    /\ browsers' = browsers - 1
    /\ etl' = [etl EXCEPT !.driver = FALSE, !.pc = "check"]
    /\ UNCHANGED <<sc, jobVars, ld, restVars>>

\* etl_pipeline.py:207-209
EtlCheck ==
    /\ etl.pc = "check"
    /\ etl' = IF etl.raw_data = <<>> THEN EtlReturn(etl, FALSE)
              ELSE [etl EXCEPT !.pc = "transform"]
    /\ UNCHANGED <<sc, browsers, jobVars, ld, restVars>>

\* etl_pipeline.py:212-215
EtlTransform(fails) ==
    /\ etl.pc = "transform"
    /\ LET df == transform_ncaa_data(etl.raw_data, fails)
       IN etl' = IF IsEmpty(df) THEN EtlReturn(etl, FALSE)
                 ELSE [etl EXCEPT !.df = df, !.pc = "load"]
    /\ UNCHANGED <<sc, browsers, jobVars, ld, restVars>>

\* etl_pipeline.py:142-155: load_data appends, or logs the error it meets
load_data(table, df, ok) == IF ok THEN table \o df.rows ELSE table

\* etl_pipeline.py:218-221
EtlLoad(ok) ==
    /\ etl.pc = "load"
    /\ etl' = EtlReturn([etl EXCEPT !.table = load_data(@, etl.df, ok), !.written = ok], TRUE)
    /\ UNCHANGED <<sc, browsers, jobVars, ld, restVars>>

\* etl_pipeline.py:223-225
EtlExcept ==
    /\ etl.pc = "except"
    /\ etl' = EtlReturn(etl, FALSE)
    /\ UNCHANGED <<sc, browsers, jobVars, ld, restVars>>

NextEtl ==
    \/ \E extractor_type \in ExtractorTypes : EtlCall(extractor_type)
    \/ \E ok \in BOOLEAN, page \in DynPages : EtlSoup(ok, page)
    \/ \E ok \in BOOLEAN : EtlLaunch(ok)
    \/ \E ok \in BOOLEAN : EtlGet(ok)
    \/ \E ok \in BOOLEAN, page \in DynPages : EtlFind(ok, page)
    \/ \E ok \in BOOLEAN : EtlRead(ok)
    \/ EtlQuit
    \/ EtlCheck
    \/ \E fails \in BOOLEAN : EtlTransform(fails)
    \/ \E ok \in BOOLEAN : EtlLoad(ok)
    \/ EtlExcept

SpecEtl == InitEtl /\ [][NextEtl]_vars

\* C10: every browser run_etl launched on the selenium path has been quit
\* when run_etl returns, whichever way it returns.
C10_RunEtlQuitsBrowser ==
    (etl.pc = "idle" /\ etl.extractor_type = "selenium") => browsers = 0

\* run_etl has returned False from the selenium path and a browser it
\* launched is still live
C10_Witness ==
    /\ etl.pc = "idle"
    /\ etl.extractor_type = "selenium"
    /\ ~etl.ret
    /\ browsers > 0

----------------------------------------------------------------------------
(* SpecLoad: the load stage called, up to MaxLoads times, with any table.  *)
(*   ld.calls       the calls made so far                                  *)
(*   ld.call        the last call: "typed" for a typed load called on the  *)
(*                  loader, "processed" for load_processed_data_to_db      *)
(*   ld.table_type, ld.df, ld.outcome    its arguments and what it met     *)
(*   ld.wrote       the table the last typed load handed to to_sql         *)
(*   ld.before      the stat tables before the last call                   *)
(*   ld.raised, ld.ret    whether it raised, and what it returned          *)

TypedTableTypes == {"basketball_stats", "football_stats"}

TableTypes == TypedTableTypes \cup {"team_stats"}

\* the columns of the tables given to the load stage: expected columns out
\* of order next to another column, columns of one sport each, and the
\* columns of the dynamic strategy
LoadColumns ==
    {<<"team_name", "column_0", "player_name">>,
     <<"position", "rebounds_per_game">>,
     <<"html_content", "text_content", "url">>}

LoadTable(cols, n) ==
    [cols |-> cols, rows |-> [i \in 1..n |-> [j \in 1..Len(cols) |-> TextAt(i + j)]]]

LoadInputs == {LoadTable(cols, n) : cols \in LoadColumns, n \in 0..MaxLoadRows}

\* data_loader.py:66-72 / 95-99
ExpectedCols(table_type) ==
    IF table_type = "basketball_stats" THEN BasketballExpectedCols ELSE FootballExpectedCols

\* data_loader.py:63 / 92 / 203
TargetTable(table_type) ==
    IF table_type = "basketball_stats" THEN BasketballTable
    ELSE IF table_type = "football_stats" THEN FootballTable
    ELSE GenericTable

InitLoad == ld = LdIdle /\ db = EmptyDb /\ jobs = <<>> /\ threads = <<>>
            /\ env = [jobs |-> 0, uniform |-> TRUE, faults |-> FALSE]
            /\ sc = ScIdle /\ browsers = 0 /\ etl = EtlIdle /\ RestIdle

\* loader.load_ncaa_basketball_stats(df) / loader.load_ncaa_football_stats(df)
LoadTyped(table_type, df, outcome) ==
    /\ ld.calls < MaxLoads
    /\ LET r == IF table_type = "basketball_stats"
                THEN load_ncaa_basketball_stats(db, df, outcome)
                ELSE load_ncaa_football_stats(db, df, outcome)
       IN /\ db' = r.db
          /\ ld' = [calls |-> ld.calls + 1, call |-> "typed", table_type |-> table_type,
                    df |-> df, outcome |-> outcome,
                    wrote |-> SelectExpected(df, ExpectedCols(table_type)),
                    before |-> db, raised |-> r.raised, ret |-> FALSE]
    /\ UNCHANGED <<sc, browsers, jobs, threads, env, etl, restVars>>

\* load_processed_data_to_db(df, table_type, db_connection_string)
LoadProcessed(table_type, df, outcome) ==
    /\ ld.calls < MaxLoads
    /\ LET r == load_processed_data_to_db(db, df, table_type, outcome)
       IN /\ db' = r.db
          /\ ld' = [calls |-> ld.calls + 1, call |-> "processed", table_type |-> table_type,
                    df |-> df, outcome |-> outcome,
                    wrote |-> IF table_type \in TypedTableTypes /\ outcome # "connect_error"
                              THEN SelectExpected(df, ExpectedCols(table_type))
                              ELSE EmptyDataFrame,
                    before |-> db, raised |-> r.raised, ret |-> r.ret]
    /\ UNCHANGED <<sc, browsers, jobs, threads, env, etl, restVars>>

NextLoad ==
    \/ \E table_type \in TypedTableTypes, df \in LoadInputs, outcome \in {"ok", "write_error"} :
           LoadTyped(table_type, df, outcome)
    \/ \E table_type \in TableTypes, df \in LoadInputs, outcome \in LoadOutcomes :
           LoadProcessed(table_type, df, outcome)

SpecLoad == InitLoad /\ [][NextLoad]_vars

\* the last call ran a typed load
TypedLoadRan ==
    /\ ld.table_type \in TypedTableTypes
    /\ ld.call = "typed" \/ (ld.call = "processed" /\ ld.outcome # "connect_error")

\* C11: a typed load writes exactly the sport's expected columns in their
\* fixed order: an expected column the input lacks is null in every row, an
\* input column that is not expected is dropped, and the values of the
\* expected columns the input has are written unchanged; when the write
\* succeeds these are the rows appended.
C11_TypedLoadWritesExpectedColumns ==
    TypedLoadRan =>
        LET expected == ExpectedCols(ld.table_type)
            target == TargetTable(ld.table_type)
        IN /\ ld.wrote.cols = expected
           /\ Len(ld.wrote.rows) = Len(ld.df.rows)
           /\ \A i \in 1..Len(ld.df.rows) :
                  /\ Len(ld.wrote.rows[i]) = Len(expected)
                  /\ \A j \in 1..Len(expected) :
                         IF \E k \in 1..Len(ld.df.cols) : ld.df.cols[k] = expected[j]
                         THEN \A k \in 1..Len(ld.df.cols) :
                                  ld.df.cols[k] = expected[j] =>
                                      ld.wrote.rows[i][j] = ld.df.rows[i][k]
                         ELSE ld.wrote.rows[i][j] = None
           /\ ld.outcome = "ok" => db[target] = ld.before[target] \o ld.wrote.rows

\* a basketball load of two rows that have team_name and player_name out of
\* order and a column that is not expected, and lack rebounds_per_game
C11_Witness ==
    /\ TypedLoadRan
    /\ ld.table_type = "basketball_stats"
    /\ ld.outcome = "ok"
    /\ ld.df.cols = <<"team_name", "column_0", "player_name">>
    /\ Len(ld.df.rows) = 2
    /\ Len(db[BasketballTable]) >= 2
    /\ db[BasketballTable][Len(db[BasketballTable])][1] = ld.df.rows[2][3]
    /\ db[BasketballTable][Len(db[BasketballTable])][11] = None

IsPrefix(a, b) == Len(a) <= Len(b) /\ SubSeq(b, 1, Len(a)) = a

\* C12: every write through load_processed_data_to_db is an append: after a
\* successful load of n rows the target holds the rows it held before,
\* unchanged, followed by n new rows, and the other tables are as they
\* were; a load that fails changes nothing; so no sequence of loads removes
\* or alters a persisted row, and loading a table twice adds 2n rows.
C12_LoadsOnlyAppend ==
    ld.call = "processed" =>
        LET target == TargetTable(ld.table_type)
        IN /\ \A t \in TableNames : IsPrefix(ld.before[t], db[t])
           /\ \A t \in TableNames \ {target} : db[t] = ld.before[t]
           /\ ld.ret => Len(db[target]) = Len(ld.before[target]) + NumRows(ld.df)
           /\ ~ld.ret => db = ld.before

\* the same table of n > 0 rows loaded twice into an empty target, which
\* now holds its rows twice: 2n rows
C12_Witness ==
    LET target == TargetTable(ld.table_type)
        n == NumRows(ld.df)
    IN /\ ld.call = "processed"
       /\ ld.calls = 2
       /\ ld.ret
       /\ n > 0
       /\ Len(ld.before[target]) = n
       /\ Len(db[target]) = 2 * n
       /\ SubSeq(db[target], n + 1, 2 * n) = ld.before[target]

\* data_loader.py:207 / :210: the value returned is a bool; as a number
\* True is 1 and False is 0
AsNumber(ret) == IF ret THEN 1 ELSE 0

\* the rows the last call appended to its target
RowsAppended == Len(db[TargetTable(ld.table_type)]) - Len(ld.before[TargetTable(ld.table_type)])

\* C13: load_processed_data_to_db returns the number of rows it appended to
\* the target, and zero, without an error, for an empty input table.
C13_ReturnsRowsAppended ==
    (ld.call = "processed" /\ ~ld.raised) =>
        /\ AsNumber(ld.ret) = RowsAppended
        /\ IsEmpty(ld.df) => AsNumber(ld.ret) = 0

\* a load that appended two rows and returned True
C13_Witness ==
    /\ ld.call = "processed"
    /\ ~ld.raised
    /\ ld.ret
    /\ RowsAppended = 2

\* a load of an empty table that returned True
C13_WitnessEmpty ==
    /\ ld.call = "processed"
    /\ ld.outcome = "ok"
    /\ IsEmpty(ld.df)
    /\ ld.ret
    /\ RowsAppended = 0

----------------------------------------------------------------------------
(* The job tracker: further claims under Spec.                             *)

\* C14: a job that is completed or failed has a completed_at timestamp, and
\* a job that is pending or running has none.
C14_CompletedAtSetWhenTerminal ==
    \A j \in JobIds :
        /\ jobs[j].status \in {"completed", "failed"} => jobs[j].completed_at # None
        /\ jobs[j].status \in {"pending", "running"} => jobs[j].completed_at = None

\* a completed job and a failed job, both saved by their workers without a
\* completed_at
C14_Witness ==
    \E j, k \in JobIds :
        /\ jobs[j].status = "completed" /\ jobs[j].completed_at = None
        /\ jobs[k].status = "failed" /\ jobs[k].completed_at = None

\* C15: a job is failed only if an exception escaped its worker's run; its
\* error_message is then that exception's message and its records_processed
\* is still 0; a completed job has an empty error_message.
C15_FailedRecordsTheException ==
    \A j \in JobIds :
        /\ jobs[j].status = "failed" =>
               /\ threads[j].cause # ""
               /\ threads[j].pc = "done"
               /\ jobs[j].error_message = threads[j].cause
               /\ jobs[j].records_processed = 0
        /\ jobs[j].status = "completed" =>
               /\ threads[j].cause = ""
               /\ jobs[j].error_message = ""

\* a job failed by a database connection error after its worker had counted
\* rows, and a completed job next to it
C15_Witness ==
    \E j, k \in JobIds :
        /\ jobs[j].status = "failed"
        /\ jobs[j].error_message = "database connection error"
        /\ threads[j].total_records > 0
        /\ jobs[k].status = "completed"
        /\ jobs[k].records_processed > 0

\* the worker of job j has called an extraction or a load
WorkerHasWorked(j) ==
    \/ threads[j].pc \in {"load", "complete"}
    \/ threads[j].extracted > 0
    \/ threads[j].attempted > 0

\* C16: the persisted status of a job is already running before its worker
\* makes its first extraction call: no extraction and no load of a job
\* happens while its persisted status is pending.
C16_RunningBeforeAnyWork ==
    \A j \in JobIds :
        (threads[j].pc # "unstarted" \/ WorkerHasWorked(j)) => jobs[j].status # "pending"

\* a worker about to make its first extraction call, its job saved as running
C16_Witness ==
    \E j \in JobIds :
        /\ threads[j].pc = "scrape"
        /\ threads[j].extracted = 0
        /\ jobs[j].status = "running"

\* the categories of every sport of a job's trigger
CategoriesOf(kind) == 5 * Len(SportsOf(kind))

\* C17 as stated: a job is completed only after every category of every
\* sport of its trigger has been extracted and its load attempted.
C17_CompletedAfterEveryLoadAttempted ==
    \A j \in JobIds :
        jobs[j].status = "completed" =>
            /\ threads[j].extracted = CategoriesOf(threads[j].kind)
            /\ threads[j].attempted = CategoriesOf(threads[j].kind)

\* C17: a job is completed only after every category of every sport of its
\* trigger has been extracted (10 for run_scraper, basketball before
\* football, 5 for the sport-specific triggers) and every table has been
\* passed by the loop: its load called if it is not empty, skipped if it is.
C17_CompletedAfterAllCategories ==
    \A j \in JobIds :
        /\ jobs[j].status = "completed" =>
               /\ threads[j].extracted = CategoriesOf(threads[j].kind)
               /\ threads[j].attempted + threads[j].skipped = CategoriesOf(threads[j].kind)
               /\ threads[j].phase = Len(SportsOf(threads[j].kind))
        /\ threads[j].extracted = 5 * (threads[j].phase - 1)
               + (IF threads[j].pc \in {"unstarted", "get", "scrape"}
                     \/ threads[j].cause \in {"job lookup error", "extraction error"}
                  THEN 0 ELSE 5)

\* a completed job of run_scraper with some tables loaded and some skipped
C17_Witness ==
    \E j \in JobIds :
        /\ jobs[j].status = "completed"
        /\ threads[j].kind = "etl"
        /\ threads[j].attempted > 0
        /\ threads[j].skipped > 0
        /\ threads[j].attempted + threads[j].skipped = 10

\* C18: a trigger request that succeeds has created exactly one job and
\* started exactly one worker for it, and its response carries status
\* "running" and the id of a job that is in the store; the response does
\* not wait for the worker: no category has been extracted when it is sent.
C18_TriggerStartsOneWorkerAndResponds ==
    [][/\ Len(jobs') = Len(threads')
       /\ \A j \in 1..Len(threads') :
              /\ threads'[j].started <= 1
              /\ threads'[j].reply = "running" =>
                     /\ threads'[j].reply_job_id = j
                     /\ j \in 1..Len(jobs')
                     /\ jobs'[j].name = JobName(threads'[j].kind)
                     /\ threads'[j].started = 1
              /\ threads'[j].reply = "error" => threads'[j].started = 0
              /\ threads'[j].started = 0 => threads'[j].pc = "unstarted"
              /\ (j > Len(threads) \/ threads[j].reply # "running") /\ threads'[j].reply = "running" =>
                     /\ Len(jobs') = Len(jobs)
                     /\ threads'[j].pc = "get"
                     /\ threads'[j].extracted = 0]_vars

\* two requests answered "running" with their job ids while neither worker
\* has extracted a category
C18_Witness ==
    /\ Len(jobs) = 2
    /\ \A j \in JobIds :
           /\ threads[j].reply = "running"
           /\ threads[j].reply_job_id = j
           /\ threads[j].started = 1
           /\ threads[j].extracted = 0
           /\ jobs[j].status = "running"

RECURSIVE SumSeq(_)
SumSeq(counts) == IF counts = <<>> THEN 0 ELSE Head(counts) + SumSeq(Tail(counts))

\* per job, the rows its loads appended to each stat table
BasketballRows == [j \in 1..Len(threads) |-> threads[j].written_basketball]

FootballRows == [j \in 1..Len(threads) |-> threads[j].written - threads[j].written_basketball]

\* C19: with jobs running concurrently, a step changes the row of at most
\* one job, and only a step of that job's own trigger or worker does; and
\* the rows the workers append to a shared stat table are all kept: the
\* table's row count is the sum of the rows each job appended to it.
C19_WorkersKeepToTheirOwnJob ==
    /\ [](/\ Len(db[BasketballTable]) = SumSeq(BasketballRows)
          /\ Len(db[FootballTable]) = SumSeq(FootballRows))
    /\ [][\A k \in 1..Len(jobs) :
              jobs'[k] # jobs[k] =>
                  /\ threads'[k] # threads[k]
                  /\ \A i \in 1..Len(jobs) \ {k} :
                         jobs'[i] = jobs[i] /\ threads'[i] = threads[i]]_vars

\* two jobs that both appended rows to the basketball table and both ended,
\* each with its own records_processed
C19_Witness ==
    /\ Len(jobs) = 2
    /\ \A j \in JobIds :
           /\ threads[j].written_basketball > 0
           /\ jobs[j].status = "completed"
           /\ jobs[j].records_processed = threads[j].total_records
    /\ threads[1].kind # threads[2].kind
    /\ jobs[1].records_processed # jobs[2].records_processed
    /\ Len(db[BasketballTable]) = threads[1].written_basketball + threads[2].written_basketball

\* the typed targets of the scrape jobs
TypedTables == {BasketballTable, FootballTable}

ExpectedColsOf(table) ==
    IF table = BasketballTable THEN BasketballExpectedCols ELSE FootballExpectedCols

\* C28: in the scrape jobs as composed, no column of a table the scraper
\* returns has the name of an expected-schema column, so every row a job
\* has persisted to a typed target holds null in every expected column,
\* player_name and team_name included.
C28_PersistedRowsAreAllNull ==
    /\ \A j \in 1..Len(threads) : \A p \in 1..Len(threads[j].results) :
           \A c \in 1..Len(threads[j].results[p].df.cols) :
               /\ ~InSeq(threads[j].results[p].df.cols[c], BasketballExpectedCols)
               /\ ~InSeq(threads[j].results[p].df.cols[c], FootballExpectedCols)
    /\ \A table \in TypedTables : \A i \in 1..Len(db[table]) :
           /\ Len(db[table][i]) = Len(ExpectedColsOf(table))
           /\ \A c \in 1..Len(db[table][i]) : db[table][i][c] = None

\* a completed job has persisted rows to both typed targets, every cell of
\* them null
C28_Witness ==
    /\ Len(jobs) = 1
    /\ jobs[1].status = "completed"
    /\ jobs[1].records_processed > 2 * NumTexts
    /\ threads[1].written = jobs[1].records_processed
    /\ \A table \in TypedTables :
           /\ Len(db[table]) >= 2
           /\ \A i \in 1..Len(db[table]) : \A c \in 1..Len(db[table][i]) :
                  db[table][i][c] = None

\* the run of two jobs whose job-table operations can fail
InitFair == Init /\ env = [jobs |-> 2, uniform |-> TRUE, faults |-> TRUE]

\* that run with every thread scheduled: a request or a worker that can
\* take a step eventually takes one, and every call it makes returns
FairSpec == InitFair /\ [][Next]_vars /\ WF_vars(Next)

\* C20: every job that reaches status running eventually reaches completed
\* or failed, given that every extraction and load call returns; also when
\* fetching or saving the job record raises in the worker.  Stated for the
\* jobs whose worker thread was started.
C20_RunningJobsEnd ==
    \A j \in 1..2 :
        (j \in JobIds /\ jobs[j].status = "running" /\ threads[j].started = 1)
            ~> (j \in JobIds /\ jobs[j].status \in {"completed", "failed"})

\* a worker that has ended on an exception of its except clause, its job
\* still running
C20_Witness ==
    \E j \in JobIds :
        /\ threads[j].pc = "died"
        /\ threads[j].started = 1
        /\ jobs[j].status = "running"

\* C27: run_etl returns True only if the transformed rows were written to
\* the target table; when extraction yields nothing, the extractor type is
\* invalid, the transformed table is empty or the write fails, it returns
\* False.
C27_TrueOnlyIfWritten ==
    (etl.pc = "idle" /\ etl.runs > 0 /\ etl.ret) => etl.written

\* run_etl has returned True although to_sql raised and the target table
\* is as it was
C27_Witness ==
    /\ etl.pc = "idle"
    /\ etl.runs = 1
    /\ etl.ret
    /\ ~etl.written
    /\ etl.table = <<>>

----------------------------------------------------------------------------
(* The status endpoint (views.py:112-131) over any job table.              *)

\* a job row as the triggers and workers leave it: pending as created,
\* running, completed with a record count, or failed with a message
JobRows ==
    UNION {{NewJob(kind),
            MarkRunning(NewJob(kind)),
            FailedJob(MarkRunning(NewJob(kind)), "job save error")}
           \cup {[MarkRunning(NewJob(kind)) EXCEPT
                      !.status = "completed", !.records_processed = n] :
                 n \in 0..MaxLoadRows} : kind \in JobKinds}

\* the job tables a status query can find
JobTables == UNION {[1..n -> JobRows] : n \in 0..MaxJobs}

\* ScrapingJob.objects.get(id=job_id) raises DoesNotExist when no row has
\* that id
DoesNotExist(table, job_id) == job_id \notin 1..Len(table)

\* the body of the 200 response, field by field from the fetched row
StatusBodyOfNewJob(job_id, job) ==
    [job_id |-> job_id, name |-> job.name, status |-> "pending",
     records_processed |-> 0, created_at |-> job.created_at,
     completed_at |-> None, error_message |-> ""]

StatusBody(job_id, job) ==
    [job_id |-> job_id, name |-> job.name, status |-> job.status,
     records_processed |-> job.records_processed,
     created_at |-> job.created_at, completed_at |-> job.completed_at,
     error_message |-> job.error_message]

NotFoundBody == [error |-> "Job not found"]

\* get_job_status as a function of the job table: the response, and the
\* table it leaves (it calls neither save nor create)
JobStatusResponse(table, job_id) ==
    IF DoesNotExist(table, job_id)
    THEN [code |-> 404, body |-> NotFoundBody, table |-> table]
    ELSE [code |-> 200, body |-> StatusBody(job_id, table[job_id]), table |-> table]

InitStatus ==
    /\ jobs \in JobTables
    /\ st = StIdle
    /\ threads = <<>> /\ db = EmptyDb
    /\ env = [jobs |-> 0, uniform |-> TRUE, faults |-> FALSE]
    /\ sc = ScIdle /\ browsers = 0 /\ etl = EtlIdle /\ ld = LdIdle
    /\ demo = DemoIdle /\ nz = NzIdle /\ chat = ChatIdle

\* one GET of the status endpoint
StatusQuery(job_id) ==
    /\ st.calls < MaxRuns
    /\ LET r == JobStatusResponse(jobs, job_id)
       IN  /\ jobs' = r.table
           /\ st' = [calls |-> st.calls + 1, job_id |-> job_id,
                     code |-> r.code, body |-> r.body,
                     before |-> jobs, after |-> r.table]
    /\ UNCHANGED <<sc, browsers, threads, db, env, etl, ld, demo, nz, chat>>

NextStatus == \E job_id \in 1..(MaxJobs + 1) : StatusQuery(job_id)

SpecStatus == InitStatus /\ [][NextStatus]_vars

\* C21: a status query for an id that matches no job answers 404, a query
\* for an existing job answers that job's persisted job_id, name, status,
\* records_processed, created_at, completed_at and error_message; in both
\* cases the job table after the query is the table before it.
C21_StatusQueryReadsOnly ==
    st.calls > 0 =>
        /\ st.after = st.before
        /\ jobs = st.before
        /\ st.job_id \notin 1..Len(st.before) =>
               st.code = 404 /\ st.body = NotFoundBody
        /\ st.job_id \in 1..Len(st.before) =>
               /\ st.code = 200
               /\ st.body.job_id = st.job_id
               /\ st.body.name = st.before[st.job_id].name
               /\ st.body.status = st.before[st.job_id].status
               /\ st.body.records_processed = st.before[st.job_id].records_processed
               /\ st.body.created_at = st.before[st.job_id].created_at
               /\ st.body.completed_at = st.before[st.job_id].completed_at
               /\ st.body.error_message = st.before[st.job_id].error_message

\* a failed job was reported with its message, from a table that also
\* holds a completed job
C21_Witness ==
    /\ st.calls > 0
    /\ st.code = 200
    /\ st.body.status = "failed"
    /\ st.body.error_message # ""
    /\ Len(jobs) = 2
    /\ \E j \in 1..2 : jobs[j].status = "completed" /\ jobs[j].records_processed > 0

\* an unknown id was answered with 404 while the table holds jobs
C21_WitnessNotFound ==
    /\ st.calls = 2
    /\ st.code = 404
    /\ Len(jobs) = 2

----------------------------------------------------------------------------
(* The create_sample_data management command                               *)
(* (management/commands/create_sample_data.py).  A row of a player stat    *)
(* table is its primary key, player_name, team_name, season, position      *)
(* (football) and is_demo_data; the generated stat columns are left out.   *)

\* create_sample_data.py:63, 121: while i < 20
SamplePlayers == 20

BasketballTeams ==
    <<"Lakers", "Warriors", "Celtics", "Heat", "Bucks", "Suns", "Nets", "76ers">>
BasketballFirstNames ==
    <<"LeBron", "Stephen", "Jayson", "Jimmy", "Giannis", "Chris", "Kevin",
      "Joel", "Luka", "Damian">>
BasketballLastNames ==
    <<"James", "Curry", "Tatum", "Butler", "Antetokounmpo", "Paul", "Durant",
      "Embiid", "Doncic", "Lillard">>
FootballTeams ==
    <<"Chiefs", "Eagles", "Cowboys", "Patriots", "Ravens", "Bills", "49ers",
      "Packers">>
FootballFirstNames ==
    <<"Patrick", "Jalen", "Dak", "Mac", "Lamar", "Josh", "Brock", "Aaron",
      "Justin", "Kyler">>
FootballLastNames ==
    <<"Mahomes", "Hurts", "Prescott", "Jones", "Jackson", "Allen", "Purdy",
      "Rodgers", "Herbert", "Murray">>
Positions == <<"QB", "RB", "WR", "TE", "FB">>

DemoSports == {"basketball", "football"}

\* the seeds of the random module a run of the command can start from
Seeds == 0..1

\* random.choice(seq): the draw number n of a generator started from seed,
\* stride apart for the different lists
random_choice(seq, seed, stride, n) ==
    seq[((seed + stride * n) % Len(seq)) + 1]

\* f"{first_name} {last_name} Demo {i+1}"
PlayerNameWithoutNumber(first_name, last_name, i) ==
    <<first_name, last_name, "Demo", 0>>

PlayerName(first_name, last_name, i) ==
    <<first_name, last_name, "Demo", i + 1>>

\* a row objects.create(...) inserts, with the primary key the table gives
SampleRow(sport, id, player_name, seed, n) ==
    IF sport = "basketball"
    THEN [id |-> id, player_name |-> player_name,
          team_name |-> random_choice(BasketballTeams, seed, 5, n),
          season |-> "2023", is_demo_data |-> TRUE]
    ELSE [id |-> id, player_name |-> player_name,
          team_name |-> random_choice(FootballTeams, seed, 5, n),
          position |-> random_choice(Positions, seed, 2, n),
          season |-> "2023", is_demo_data |-> TRUE]

\* a row the table holds before the first run: scraped (is_demo_data
\* false) or left by an earlier generation (true)
OldRow(sport, id, flag) ==
    IF sport = "basketball"
    THEN [id |-> id, player_name |-> <<"Old", "Player", "Row", id>>,
          team_name |-> "Lakers", season |-> "2023", is_demo_data |-> flag]
    ELSE [id |-> id, player_name |-> <<"Old", "Player", "Row", id>>,
          team_name |-> "Chiefs", position |-> "QB",
          season |-> "2023", is_demo_data |-> flag]

OldFlags == UNION {[1..n -> BOOLEAN] : n \in 0..MaxOldRows}

OldTable(sport, flags) == [id \in 1..Len(flags) |-> OldRow(sport, id, flags[id])]

\* objects.filter(is_demo_data=True)
DeleteFilterAll(row) == TRUE

DeleteFilter(row) == row.is_demo_data

\* QuerySet.delete(): the rows the filter selects are removed
QuerySetDelete(table) ==
    LET Keep(row) == ~DeleteFilter(row) IN SelectSeq(table, Keep)

NonDemoRows(table) == {table[k] : k \in {k \in 1..Len(table) : ~table[k].is_demo_data}}

DemoRows(table) == {table[k] : k \in {k \in 1..Len(table) : table[k].is_demo_data}}

InitDemo ==
    /\ \E flags \in OldFlags :
           demo = [DemoIdle EXCEPT
                       !.basketball = OldTable("basketball", flags),
                       !.football = OldTable("football", flags),
                       !.next_id = [basketball |-> Len(flags) + 1,
                                    football |-> Len(flags) + 1],
                       !.before = [basketball |-> OldTable("basketball", flags),
                                   football |-> OldTable("football", flags)]]
    /\ st = StIdle /\ nz = NzIdle /\ chat = ChatIdle
    /\ sc = ScIdle /\ browsers = 0 /\ JobsIdle /\ etl = EtlIdle /\ ld = LdIdle

DemoOptions ==
    {[basketball |-> FALSE, football |-> FALSE, all |-> FALSE],
     [basketball |-> TRUE, football |-> FALSE, all |-> FALSE],
     [basketball |-> FALSE, football |-> TRUE, all |-> FALSE],
     [basketball |-> FALSE, football |-> FALSE, all |-> TRUE]}

DemoUnchanged == UNCHANGED <<sc, browsers, jobVars, etl, ld, st, nz, chat>>

\* create_sample_data.py:28-37: handle reads its options
DemoHandle(options, seed) ==
    /\ demo.pc = "idle"
    /\ demo.runs < MaxCommands
    /\ LET create_all ==
               IF ~(options.basketball \/ options.football \/ options.all)
               THEN TRUE ELSE options.all
       IN  demo' = [demo EXCEPT
                        !.runs = @ + 1, !.options = options, !.seed = seed,
                        !.create_all = create_all,
                        !.sport = IF options.basketball \/ create_all
                                  THEN "basketball" ELSE "football",
                        !.pc = "delete"]
    /\ DemoUnchanged

\* :52-61, 109-119: the demo rows are deleted, used_names = set(), i = 0
DemoDelete ==
    /\ demo.pc = "delete"
    /\ demo' = [demo EXCEPT
                    ![demo.sport] = QuerySetDelete(@),
                    !.used_names = {}, !.i = 0, !.retries = 0, !.created = 0,
                    !.pc = "loop"]
    /\ DemoUnchanged

\* :63-104, 121-208: one iteration of while i < 20
DemoCreate ==
    /\ demo.pc = "loop"
    /\ demo.i < SamplePlayers
    /\ demo.retries < SamplePlayers
    /\ LET n == demo.i + demo.retries
           firsts == IF demo.sport = "basketball"
                     THEN BasketballFirstNames ELSE FootballFirstNames
           lasts == IF demo.sport = "basketball"
                    THEN BasketballLastNames ELSE FootballLastNames
           player_name == PlayerName(random_choice(firsts, demo.seed, 1, n),
                                     random_choice(lasts, demo.seed, 3, n),
                                     demo.i)
       IN  IF player_name \notin demo.used_names
           THEN demo' = [demo EXCEPT
                    !.used_names = @ \cup {player_name},
                    ![demo.sport] =
                        Append(@, SampleRow(demo.sport, demo.next_id[demo.sport],
                                            player_name, demo.seed, n)),
                    !.next_id[demo.sport] = @ + 1,
                    !.created = @ + 1,
                    !.i = @ + 1]
           ELSE demo' = [demo EXCEPT !.retries = @ + 1]
    /\ DemoUnchanged

\* the loop ends; handle goes on to the football data when asked (:43-44)
DemoReturn ==
    /\ demo.pc = "loop"
    /\ demo.i >= SamplePlayers
    /\ demo' = [demo EXCEPT
                    !.returned = @ \cup {demo.sport},
                    !.sport = IF demo.sport = "basketball"
                                 /\ (demo.options.football \/ demo.create_all)
                              THEN "football" ELSE @,
                    !.pc = IF demo.sport = "basketball"
                              /\ (demo.options.football \/ demo.create_all)
                           THEN "delete" ELSE "idle"]
    /\ DemoUnchanged

NextDemo ==
    \/ \E options \in DemoOptions, seed \in Seeds : DemoHandle(options, seed)
    \/ DemoDelete
    \/ DemoCreate
    \/ DemoReturn

SpecDemo == InitDemo /\ [][NextDemo]_vars

\* C22: demo-data regeneration, run any number of times from any table
\* contents, leaves the rows whose is_demo_data is false as they were: at
\* every step of every run, and after it, the set of non-demo rows of each
\* table is the set the table held before the first run.
C22_DemoRegenerationKeepsScrapedRows ==
    \A sport \in DemoSports :
        NonDemoRows(demo[sport]) = NonDemoRows(demo.before[sport])

\* a second run has regenerated both tables, which held scraped rows and
\* demo rows from the start
C22_Witness ==
    /\ demo.runs = 2
    /\ demo.pc = "idle"
    /\ demo.returned = DemoSports
    /\ \A sport \in DemoSports :
           /\ NonDemoRows(demo[sport]) # {}
           /\ \E k \in 1..Len(demo[sport]) :
                  ~demo[sport][k].is_demo_data /\ demo[sport][k].id = 2
           /\ Cardinality(DemoRows(demo[sport])) = SamplePlayers

\* the player names of a table's demo rows
DemoNames(table) == {row.player_name : row \in DemoRows(table)}

\* C30: each run of create_sample_basketball_data or
\* create_sample_football_data ends after exactly 20 iterations of its loop
\* (no generated name is ever found in used_names), having created 20 rows
\* flagged is_demo_data with pairwise distinct player names; so whenever no
\* run is under way, a table that has been generated holds exactly 20 demo
\* rows, however many runs there were.
C30_RunCreatesTwentyDemoRows ==
    /\ demo.retries = 0
    /\ demo.pc = "loop" =>
           /\ demo.created = demo.i
           /\ demo.i <= SamplePlayers
           /\ Cardinality(DemoRows(demo[demo.sport])) = demo.i
           /\ Cardinality(DemoNames(demo[demo.sport])) = demo.i
    /\ demo.pc = "idle" /\ demo.runs > 0 => demo.created = SamplePlayers
    /\ demo.pc # "loop" =>
           \A sport \in demo.returned :
               /\ Cardinality(DemoRows(demo[sport])) = SamplePlayers
               /\ Cardinality(DemoNames(demo[sport])) = SamplePlayers

\* two runs from different seeds have regenerated the basketball table,
\* which held demo rows of an earlier generation: 20 demo rows, none of the
\* old ones
C30_Witness ==
    /\ demo.runs = 2
    /\ demo.pc = "idle"
    /\ demo.seed = 1
    /\ "basketball" \in demo.returned
    /\ DemoRows(demo.before.basketball) # {}
    /\ DemoRows(demo.before.basketball) \cap DemoRows(demo.basketball) = {}
    /\ Cardinality(DemoRows(demo.basketball)) = SamplePlayers
    /\ demo.next_id.basketball > 2 * SamplePlayers

----------------------------------------------------------------------------
(* The normalizers over any list of raw rows:                              *)
(* NCAAScraper.clean_and_structure_data and                                *)
(* SportsETLPipeline.transform_ncaa_data with its _clean_dataframe.        *)

\* the cells of a raw row: number texts, two spellings of one number,
\* texts with and without surrounding whitespace, the empty text, None
FirstCells == {"7", "07", "a", " a", "", None}

\* the second cell, when the row has one
SecondCells == {"a", ""}

\* raw rows of one or two cells, keyed as the static strategy keys them
RawRowSet ==
    {<< <<ColumnKey(0), c>> >> : c \in FirstCells}
    \cup {<< <<ColumnKey(0), c>>, <<ColumnKey(1), e>> >> :
              c \in FirstCells, e \in SecondCells}

RawLists == UNION {[1..n -> RawRowSet] : n \in 0..MaxRawRows}

Normalizers == {"clean_and_structure_data", "transform_ncaa_data"}

InitNormalize ==
    /\ \E raw \in RawLists : nz = [NzIdle EXCEPT !.raw = raw]
    /\ st = StIdle /\ demo = DemoIdle /\ chat = ChatIdle
    /\ sc = ScIdle /\ browsers = 0 /\ JobsIdle /\ etl = EtlIdle /\ ld = LdIdle

\* one call of a normalizer on the raw rows; both catch every exception
\* and answer a table
Normalize(fn, fails) ==
    /\ nz.calls < MaxRuns
    /\ fn \in Normalizers
    /\ nz' = [nz EXCEPT
                 !.calls = @ + 1, !.fn = fn,
                 !.failed = fails /\ ~(fn = "clean_and_structure_data" /\ nz.raw = <<>>),
                 !.raised = FALSE,
                 !.df = IF fn = "clean_and_structure_data"
                        THEN clean_and_structure_data(nz.raw, fails)
                        ELSE transform_ncaa_data(nz.raw, fails)]
    /\ UNCHANGED <<sc, browsers, jobVars, etl, ld, st, demo, chat>>

NextNormalize == \E fn \in Normalizers, fails \in BOOLEAN : Normalize(fn, fails)

SpecNormalize == InitNormalize /\ [][NextNormalize]_vars

\* the raw rows without their repetitions, the first of equal rows kept
DistinctRaw == DropDuplicateRows(nz.raw)

\* C23 as stated: no two rows of the table a normalizer returns are equal.
C23_ReturnedRowsAreDistinct ==
    nz.calls > 0 =>
        \A i, k \in 1..Len(nz.df.rows) : i # k => nz.df.rows[i] # nz.df.rows[k]

\* clean_and_structure_data returned two equal rows: made of raw rows that
\* differed only in an absent against an empty cell, or in the spelling of
\* a number
C23_Witness ==
    /\ nz.fn = "clean_and_structure_data"
    /\ ~nz.failed
    /\ Len(nz.raw) = 2
    /\ nz.raw[1] # nz.raw[2]
    /\ Len(nz.df.rows) = 2
    /\ nz.df.rows[1] = nz.df.rows[2]

\* _clean_dataframe returned two equal rows: made of raw rows that differed
\* only in surrounding whitespace
C23_WitnessStrip ==
    /\ nz.fn = "transform_ncaa_data"
    /\ ~nz.failed
    /\ nz.raw = << << <<ColumnKey(0), "a">> >>, << <<ColumnKey(0), " a">> >> >>
    /\ nz.df.rows = << <<"a">>, <<"a">> >>

\* the texts pd.to_numeric converts
NumberTexts == {"12", "7", "07"}

\* C24: clean_and_structure_data drops no row for its cell contents: given
\* a non-empty list it returns one row per distinct raw row, in their
\* order, and a cell whose text is not a number keeps that text (unless
\* pandas itself failed inside the try).
C24_NoRowDroppedForItsCells ==
    (nz.fn = "clean_and_structure_data" /\ ~nz.failed /\ nz.raw # <<>>) =>
        /\ Len(nz.df.rows) = Len(DistinctRaw)
        /\ Len(nz.df.rows) > 0
        /\ \A k \in 1..Len(nz.df.rows), j \in 1..Len(nz.df.cols) :
               LET row == DistinctRaw[k]
                   col == nz.df.cols[j]
               IN  (HasKey(row, col) /\ Get(row, col) \notin NumberTexts \cup {None})
                       => nz.df.rows[k][j] = Get(row, col)

\* two distinct raw rows, one with a number and one with a text that is
\* not a number, came back as two rows, the text as it was
C24_Witness ==
    /\ nz.fn = "clean_and_structure_data"
    /\ ~nz.failed
    /\ nz.raw = << << <<ColumnKey(0), "07">>, <<ColumnKey(1), "a">> >>,
                   << <<ColumnKey(0), " a">> >> >>
    /\ nz.df.rows = << <<"#7", "a">>, <<" a", "">> >>

C26_EmptyListGivesEmptyTable ==
    (nz.fn = "clean_and_structure_data" /\ nz.raw = <<>>) =>
        /\ IsEmpty(nz.df)
        /\ nz.df = EmptyDataFrame
        /\ ~nz.raised
        /\ ~nz.failed

\* clean_and_structure_data has answered the empty list
C26_Witness ==
    /\ nz.calls > 0
    /\ nz.fn = "clean_and_structure_data"
    /\ nz.raw = <<>>
    /\ nz.df = EmptyDataFrame

----------------------------------------------------------------------------
(* The chatbot endpoint (chatbot/views.py:51-98) with its sessions and     *)
(* messages (chatbot/models.py).  Requests are served concurrently; a      *)
(* request is at the statement its pc names, and each ORM call is a step.  *)

\* request.data.get('message', '')
Messages == {"", "points?"}

\* request.data.get('session_id', None): absent, empty, the id of a session
\* that is not active, an id no session has, the id of a session opened
\* earlier, the first id uuid4 gives
SessionIdInputs == {None, "", "closed", "nobody", "open", "uuid-1"}

\* str(uuid.uuid4()): the n-th identifier
uuid4(n) ==
    CASE n = 1 -> "uuid-1"
      [] n = 2 -> "uuid-2"
      [] n = 3 -> "uuid-3"
      [] OTHER -> "uuid-4"

\* 'not user_message' / 'not session_id'
Falsy(x) == x \in {"", None}

\* chatbot/models.py:8-11: ChatSession(session_id), is_active defaults to
\* True
NewSession(session_id) == [session_id |-> session_id, is_active |-> TRUE]

\* a session that was closed before the requests arrive
ClosedSession == [session_id |-> "closed", is_active |-> FALSE]

\* ChatSession.objects.get(session_id=session_id, is_active=True) finds one
ActiveSession(sessions, session_id) ==
    \E k \in 1..Len(sessions) :
        sessions[k].session_id = session_id /\ sessions[k].is_active

\* chatbot/models.py:25-28: ChatMessage(session, role, content)
ChatMessage(session_id, role, content) ==
    [session |-> session_id, role |-> role, content |-> content]

\* process_sports_query: always a string; no stat table holds rows here
process_sports_query(query) ==
    IF query = "points?" THEN "No basketball data available in the database."
    ELSE "I can help you analyze sports statistics."

\* a request as it arrives
NewRequest(message, session_id) ==
    [message |-> message, session_id |-> session_id, pc |-> "begin",
     session |-> "", code |-> 0, users |-> 0, assistants |-> 0,
     created |-> FALSE]

\* get_chat_history: the session's messages ordered by timestamp, which is
\* the order of their creation
RECURSIVE MessagesOf(_, _)
MessagesOf(messages, session_id) ==
    IF messages = <<>> THEN <<>>
    ELSE LET rest == MessagesOf(SubSeq(messages, 1, Len(messages) - 1), session_id)
             last == messages[Len(messages)]
         IN IF last.session = session_id THEN Append(rest, last) ELSE rest

get_chat_history(session_id) ==
    LET msgs == MessagesOf(chat.messages, session_id)
    IN [k \in 1..Len(msgs) |-> msgs[k].role]

InitChat ==
    /\ chat \in {ChatIdle,
                 [ChatIdle EXCEPT !.sessions = <<ClosedSession, NewSession("open")>>]}
    /\ st = StIdle /\ demo = DemoIdle /\ nz = NzIdle
    /\ sc = ScIdle /\ browsers = 0 /\ JobsIdle /\ etl = EtlIdle /\ ld = LdIdle

ChatUnchanged == UNCHANGED <<sc, browsers, jobVars, etl, ld, st, demo, nz>>

\* the except clause of the endpoint (:96-98): 500
ChatExcept(r) == [r EXCEPT !.pc = "done", !.code = 500]

\* some request has not been answered yet
InFlight == \E i \in 1..Len(chat.reqs) : chat.reqs[i].pc # "done"

\* a client can send the id of a session the endpoint created only after
\* the response that carries it (:90-94); any other id it can send at will
KnownToClient(session_id) ==
    (\E k \in 1..Len(chat.sessions) :
         chat.sessions[k].session_id = session_id /\ session_id \notin {"open", "closed"})
        => \E i \in 1..Len(chat.reqs) :
               /\ chat.reqs[i].created
               /\ chat.reqs[i].session = session_id
               /\ chat.reqs[i].code = 200

\* chatbot/views.py:57-71: a request arrives; the message is checked, the
\* session is created or looked up
ChatBegin(message, session_id, ok) ==
    /\ Len(chat.reqs) < MaxRequests
    /\ KnownToClient(session_id)
    /\ LET r == NewRequest(message, session_id)
           c == [chat EXCEPT !.overlapped = @ \/ InFlight]
       IN  IF Falsy(message)
           THEN chat' = [c EXCEPT
                    !.reqs = Append(@, [r EXCEPT !.pc = "done", !.code = 400])]
           ELSE IF Falsy(session_id)
           THEN IF ok
                THEN chat' = [c EXCEPT
                         !.uuids = @ + 1,
                         !.sessions = Append(@, NewSession(uuid4(chat.uuids + 1))),
                         !.reqs = Append(@, [r EXCEPT
                                      !.pc = "user", !.created = TRUE,
                                      !.session = uuid4(chat.uuids + 1)])]
                ELSE chat' = [c EXCEPT
                         !.uuids = @ + 1,
                         !.reqs = Append(@, ChatExcept(r))]
           ELSE IF ~ok
           THEN chat' = [c EXCEPT !.reqs = Append(@, ChatExcept(r))]
           ELSE IF ActiveSession(chat.sessions, session_id)
           THEN chat' = [c EXCEPT
                    !.reqs = Append(@, [r EXCEPT !.pc = "user", !.session = session_id])]
           ELSE chat' = [c EXCEPT
                    !.reqs = Append(@, [r EXCEPT !.pc = "done", !.code = 400])]
    /\ ChatUnchanged

\* :74-78: the user message is saved
ChatSaveUser(i, ok) ==
    /\ i \in 1..Len(chat.reqs)
    /\ chat.reqs[i].pc = "user"
    /\ LET r == chat.reqs[i]
       IN  IF ok
           THEN chat' = [chat EXCEPT
                    !.messages = Append(@, ChatMessage(r.session, "user", r.message)),
                    !.reqs[i] = [r EXCEPT !.pc = "assistant", !.users = @ + 1]]
           ELSE chat' = [chat EXCEPT !.reqs[i] = ChatExcept(r)]
    /\ ChatUnchanged

\* :81-94: the query is processed, the assistant message saved and the
\* response returned
ChatSaveAssistant(i, ok) ==
    /\ i \in 1..Len(chat.reqs)
    /\ chat.reqs[i].pc = "assistant"
    /\ LET r == chat.reqs[i]
           response == process_sports_query(r.message)
       IN  IF ok
           THEN chat' = [chat EXCEPT
                    !.messages = Append(@, ChatMessage(r.session, "assistant", response)),
                    !.reqs[i] = [r EXCEPT !.pc = "done", !.code = 200,
                                          !.assistants = @ + 1]]
           ELSE chat' = [chat EXCEPT !.reqs[i] = ChatExcept(r)]
    /\ ChatUnchanged

NextChat ==
    \/ \E message \in Messages, session_id \in SessionIdInputs, ok \in BOOLEAN :
           ChatBegin(message, session_id, ok)
    \/ \E i \in 1..MaxRequests, ok \in BOOLEAN : ChatSaveUser(i, ok)
    \/ \E i \in 1..MaxRequests, ok \in BOOLEAN : ChatSaveAssistant(i, ok)

SpecChat == InitChat /\ [][NextChat]_vars

\* the sessions the requests were served in
ServedSessions == {chat.reqs[i].session : i \in 1..Len(chat.reqs)} \ {""}

\* every request served in the session has been answered 200
AllAccepted(session_id) ==
    \A i \in 1..Len(chat.reqs) :
        chat.reqs[i].session = session_id => chat.reqs[i].code = 200

\* user, assistant, user, assistant, ...
Alternates(roles) ==
    /\ Len(roles) % 2 = 0
    /\ \A k \in 1..Len(roles) :
           roles[k] = IF k % 2 = 1 THEN "user" ELSE "assistant"

\* C29 as stated: a request with an empty message, or with a session_id
\* that matches no active session, is answered 400 and stores no message
\* and no session; a request answered 200 has appended one user message and
\* one assistant message to its session; and the history of a session
\* whose requests were all accepted alternates user, assistant.
C29_HistoryAlternates ==
    /\ \A i \in 1..Len(chat.reqs) :
           LET r == chat.reqs[i]
           IN  /\ Falsy(r.message) => r.code = 400
               /\ (r.session_id \in {"closed", "nobody"} /\ r.code # 500) => r.code = 400
               /\ r.code = 400 => r.users = 0 /\ r.assistants = 0 /\ ~r.created
               /\ r.code = 200 => r.users = 1 /\ r.assistants = 1
    /\ \A session_id \in ServedSessions :
           AllAccepted(session_id) => Alternates(get_chat_history(session_id))

\* two requests to one session were both answered 200 and the session's
\* history reads user, user, assistant, assistant
C29_Witness ==
    /\ Len(chat.reqs) = 2
    /\ chat.reqs[1].code = 200 /\ chat.reqs[2].code = 200
    /\ chat.reqs[1].session = "open" /\ chat.reqs[2].session = "open"
    /\ get_chat_history("open") = <<"user", "user", "assistant", "assistant">>

\* a request was answered 500 after its user message was saved: the
\* session's history ends with a user message that has no answer
C29_WitnessLoneUserMessage ==
    /\ ~chat.overlapped
    /\ ~InFlight
    /\ \E i \in 1..Len(chat.reqs) :
           /\ chat.reqs[i].code = 500
           /\ chat.reqs[i].users = 1
    /\ get_chat_history("uuid-1") = <<"user">>

\* requests that arrive one after the other, none answered 500, do leave
\* every history alternating
C29_NonOverlappingHistoryAlternates ==
    (~chat.overlapped /\ ~InFlight
        /\ \A i \in 1..Len(chat.reqs) : chat.reqs[i].code # 500) =>
            \A session_id \in ServedSessions : Alternates(get_chat_history(session_id))

\* two requests one after the other in one session: four messages
C29_WitnessSequential ==
    /\ ~chat.overlapped
    /\ Len(chat.reqs) = 2
    /\ get_chat_history("uuid-1") = <<"user", "assistant", "user", "assistant">>

====
